---- MODULE Spec2Model ----
(***************************************************************************)
(* MPStats Analyzer: the scoring engine (core/scoring_engine.py), the data *)
(* validator (core/data_validator.py), the file processor                  *)
(* (core/file_processor.py) and the session flow around them (app.py,      *)
(* components/file_uploader.py).                                           *)
(*                                                                         *)
(* A DataFrame is a record [cols, rows]: cols is the set of column names,  *)
(* rows the sequence of rows, each a function from cols to integers.       *)
(* Columns carry the keys of config.DATA_FIELDS ("date" is the column      *)
(* 'Месяц' of a trends report and 'Дата' of a daily report, "stock" is     *)
(* 'Остаток', ...); "year", "month_num", "month" and "coefficient" are the *)
(* derived columns 'Год', 'Месяц_номер', 'Месяц' (daily report) and        *)
(* 'Коэффициент_спрос_предложение'.  A date cell is the number of days     *)
(* since 2023-01-01.  Cells are integers: no cell is missing (NaN).        *)
(* Floating-point quantities are exact rationals [n, d] with d > 0.        *)
(***************************************************************************)
EXTENDS Integers, Sequences, FiniteSets, TLC

VARIABLES
    loaded_data,         \* st.session_state.loaded_data
    validation_results,  \* st.session_state.validation_results
    scoring_results,     \* st.session_state.scoring_results
    analysis_results,    \* st.session_state.analysis_results: the modules analysed
    file_info,           \* st.session_state.file_info: absent, a dict of its own, or
                         \* the dict of the file processor itself
    processor_file_info, \* FileProcessor.file_info of the one FileProcessor that
                         \* init_components caches for every session
    pc,                  \* "idle" | "call" | "return": a library call under way
    call,                \* [fn, arg]: the function called and its argument
    ret,                 \* what the call returned
    arg_after            \* the argument object as the call left it

vars == <<loaded_data, validation_results, scoring_results, analysis_results,
          file_info, processor_file_info, pc, call, ret, arg_after>>

-----------------------------------------------------------------------------
(* Bounds of the model *)

\* Rows of a generated table.
MaxRows == 2

\* Files of one upload.
MaxFiles == 2

\* Probed ratios and percentages are the halves k/2 with |k| <= MaxProbe.
MaxProbe == 24

\* Rows of a generated queries report with a given share of effective queries.
MaxQueries == 20

\* Days of a generated daily report with a given share of days without stock.
MaxDays == 10

\* Segments of a generated price report with a given number of profitable ones.
MaxSegments == 8

-----------------------------------------------------------------------------
(* Sequences and rationals *)

RECURSIVE SumSeq(_)
SumSeq(s) == IF s = <<>> THEN 0 ELSE Head(s) + SumSeq(Tail(s))

RECURSIVE SelectIdx(_, _, _)
\* the indices i of 1..n, ascending, with keep[i]
SelectIdx(keep, i, n) ==
    IF i > n THEN <<>>
    ELSE IF i = n THEN (IF keep[i] THEN <<i>> ELSE <<>>)
    ELSE SelectIdx(keep, i, (i + n) \div 2) \o SelectIdx(keep, (i + n) \div 2 + 1, n)

Min2(a, b) == IF a <= b THEN a ELSE b

SetMin(S) == CHOOSE x \in S : \A y \in S : x <= y
SetMax(S) == CHOOSE x \in S : \A y \in S : x >= y

RECURSIVE SortedSeq(_)
\* the elements of a finite set of integers, ascending
SortedSeq(S) == IF S = {} THEN <<>> ELSE <<SetMin(S)>> \o SortedSeq(S \ {SetMin(S)})

Rat(n, d) == [n |-> n, d |-> d]
RatAdd(a, b) == Rat(a.n * b.d + b.n * a.d, a.d * b.d)
RatGeqInt(a, k) == a.n >= k * a.d
RatLeq(a, b) == a.n * b.d <= b.n * a.d

RECURSIVE RatSum(_)
RatSum(s) == IF s = <<>> THEN Rat(0, 1) ELSE RatAdd(Head(s), RatSum(Tail(s)))

\* np.mean of a non-empty list of rationals
RatMean(s) == LET t == RatSum(s) IN Rat(t.n, t.d * Len(s))

-----------------------------------------------------------------------------
(* Dates: days since 2023-01-01, with the calendar of 2023..2026 *)

YearLen(y) == IF y % 4 = 0 THEN 366 ELSE 365

MonthLen(y, m) ==
    IF m = 2 THEN (IF y % 4 = 0 THEN 29 ELSE 28)
    ELSE IF m \in {4, 6, 9, 11} THEN 30 ELSE 31

RECURSIVE YearFrom(_, _)
YearFrom(y, d) == IF d < YearLen(y) THEN y ELSE YearFrom(y + 1, d - YearLen(y))

RECURSIVE DayOfYearFrom(_, _)
DayOfYearFrom(y, d) == IF d < YearLen(y) THEN d ELSE DayOfYearFrom(y + 1, d - YearLen(y))

RECURSIVE MonthFrom(_, _, _)
MonthFrom(y, m, d) == IF d < MonthLen(y, m) THEN m ELSE MonthFrom(y, m + 1, d - MonthLen(y, m))

\* Series.dt.year and Series.dt.month of a date cell
DtYear(d) == YearFrom(2023, d)
DtMonth(d) == MonthFrom(DtYear(d), 1, DayOfYearFrom(2023, d))

RECURSIVE DaysBeforeMonth(_, _)
DaysBeforeMonth(y, m) == IF m = 1 THEN 0 ELSE MonthLen(y, m - 1) + DaysBeforeMonth(y, m - 1)

RECURSIVE DaysBeforeYear(_)
DaysBeforeYear(y) == IF y = 2023 THEN 0 ELSE YearLen(y - 1) + DaysBeforeYear(y - 1)

\* the date cell of year y, month m, day d
DateOf(y, m, d) == DaysBeforeYear(y) + DaysBeforeMonth(y, m) + (d - 1)

-----------------------------------------------------------------------------
(* DataFrames *)

DataFrame(cols, rows) == [cols |-> cols, rows |-> rows]

\* df[col] as the sequence of its cells
Column(df, col) == [i \in 1..Len(df.rows) |-> df.rows[i][col]]

\* df[mask]: the rows i with keep[i], in order
Filter(df, keep) ==
    LET idx == SelectIdx(keep, 1, Len(df.rows))
    IN  DataFrame(df.cols, [k \in 1..Len(idx) |-> df.rows[idx[k]]])

\* df[col] = values: adds the column, or overwrites it
Assign(df, col, values) ==
    DataFrame(df.cols \cup {col},
              [i \in 1..Len(df.rows) |->
                  [c \in df.cols \cup {col} |-> IF c = col THEN values[i] ELSE df.rows[i][c]]])

\* the positions of the rows in the order of a stable sort by col
RECURSIVE SortPerm(_, _, _)
SortPerm(df, col, left) ==
    IF left = {} THEN <<>>
    ELSE LET lo == SetMin({df.rows[i][col] : i \in left})
             first == SetMin({i \in left : df.rows[i][col] = lo})
         IN  <<first>> \o SortPerm(df, col, left \ {first})

\* df.sort_values(col)
SortValues(df, col) ==
    LET p == SortPerm(df, col, 1..Len(df.rows))
    IN  DataFrame(df.cols, [k \in 1..Len(p) |-> df.rows[p[k]]])

\* Series.mean() of a non-empty column, Series.median() doubled
ColSum(df, col) == SumSeq(Column(df, col))
Median2(df, col) ==
    LET s == Column(SortValues(df, col), col)
        n == Len(s)
    IN  IF n % 2 = 1 THEN 2 * s[(n + 1) \div 2] ELSE s[n \div 2] + s[n \div 2 + 1]

-----------------------------------------------------------------------------
(* config.py *)

TREND_THRESHOLDS == [excellent |-> 10, good |-> 0, stable |-> -5, poor |-> -15]

ADS_THRESHOLDS == [excellent |-> 4, good |-> 3, average |-> 2, poor |-> 1]

\* the dict in its insertion order, which is the order of the lookup
TOTAL_SCORE_RANGES ==
    << [rating |-> "excellent", min_score |-> 16, max_score |-> 20],
       [rating |-> "good",      min_score |-> 11, max_score |-> 15],
       [rating |-> "average",   min_score |-> 6,  max_score |-> 10],
       [rating |-> "poor",      min_score |-> 1,  max_score |-> 5] >>

SCORING_CONFIG ==
    [trend_weight |-> 4, query_weight |-> 4, price_weight |-> 4, stock_weight |-> 4,
     ads_weight |-> 4, max_total_score |-> 20]

\* the keys of loaded_data, and for each the key of its entry in detailed_analysis
DataTypes == {"trends", "queries", "price", "days", "products"}

AnalysisKey(data_type) ==
    CASE data_type = "days" -> "stock"
      [] data_type = "products" -> "ads"
      [] OTHER -> data_type

ScoreKey(data_type) ==
    CASE data_type = "trends" -> "trend_score"
      [] data_type = "queries" -> "query_score"
      [] data_type = "price" -> "price_score"
      [] data_type = "days" -> "stock_score"
      [] OTHER -> "ads_score"

\* an analysis dict without the key 'error'
NoError == "none"

-----------------------------------------------------------------------------
(* ScoringEngine: trends *)

\* the threshold ladder of _calculate_yoy_score over the average YoY change
\* the ladder with strict comparisons
YoyThresholdScoreStrict(avg_yoy_change) ==
    IF ~RatGeqInt(Rat(-avg_yoy_change.n, avg_yoy_change.d), -TREND_THRESHOLDS.excellent) THEN 4
    ELSE IF ~RatGeqInt(Rat(-avg_yoy_change.n, avg_yoy_change.d), -TREND_THRESHOLDS.good) THEN 3
    ELSE IF ~RatGeqInt(Rat(-avg_yoy_change.n, avg_yoy_change.d), -TREND_THRESHOLDS.stable) THEN 2
    ELSE 1

YoyThresholdScore(avg_yoy_change) ==
    IF RatGeqInt(avg_yoy_change, TREND_THRESHOLDS.excellent) THEN 4
    ELSE IF RatGeqInt(avg_yoy_change, TREND_THRESHOLDS.good) THEN 3
    ELSE IF RatGeqInt(avg_yoy_change, TREND_THRESHOLDS.stable) THEN 2
    ELSE 1

YoyTrend(score) ==
    CASE score = 4 -> "excellent_growth"
      [] score = 3 -> "good_growth"
      [] score = 2 -> "stability"
      [] OTHER -> "decline"

\* df.groupby('Год')[metric_col].mean().sort_index()
YearlyData(df, metric_col) ==
    LET ys == SortedSeq({df.rows[i]["year"] : i \in 1..Len(df.rows)})
    IN  [k \in 1..Len(ys) |->
            LET g == Filter(df, [i \in 1..Len(df.rows) |-> df.rows[i]["year"] = ys[k]])
            IN  Rat(ColSum(g, metric_col), Len(g.rows))]

\* ((curr_value - prev_value) / prev_value) * 100
ChangePercent(prev, curr) == Rat(100 * (curr.n * prev.d - prev.n * curr.d), prev.n * curr.d)

_calculate_yoy_score(df, metric_col) ==
    LET yearly_data == YearlyData(df, metric_col)
        n == Len(yearly_data)
    IN  IF n < 2
        THEN [score |-> 2, change |-> [message |-> "not_enough_data"]]
        ELSE LET idx == SelectIdx([i \in 1..(n - 1) |-> yearly_data[i].n > 0], 1, n - 1)
                 yoy_changes == [k \in 1..Len(idx) |->
                                    ChangePercent(yearly_data[idx[k]], yearly_data[idx[k] + 1])]
             IN  IF yoy_changes = <<>>
                 THEN [score |-> 2, change |-> [message |-> "no_yoy_change"]]
                 ELSE LET score == YoyThresholdScore(RatMean(yoy_changes))
                      IN  [score |-> score,
                           change |-> [trend |-> YoyTrend(score), changes |-> Len(yoy_changes)]]

\* (metric_key, metric_col) in the order of the loop
TrendMetrics ==
    << [key |-> "brands_with_sales",   col |-> "brands_with_sales"],
       [key |-> "brands_total",        col |-> "brands"],
       [key |-> "products_with_sales", col |-> "products_with_sales"],
       [key |-> "products_total",      col |-> "products"],
       [key |-> "avg_check",           col |-> "avg_check"] >>

\* the first row of the frame with the largest cell in col (Series.idxmax)
IdxMax(df, col) ==
    LET hi == SetMax({df.rows[i][col] : i \in 1..Len(df.rows)})
    IN  SetMin({i \in 1..Len(df.rows) : df.rows[i][col] = hi})

PeakMonths(df) ==
    LET years == {df.rows[i]["year"] : i \in 1..Len(df.rows)}
    IN  IF "sales" \in df.cols
        THEN [y \in years |->
                 LET year_data == Filter(df, [i \in 1..Len(df.rows) |-> df.rows[i]["year"] = y])
                 IN  year_data.rows[IdxMax(year_data, "sales")]["month_num"]]
        ELSE <<>>

\* the metric scores added up and not averaged
MeanScoreSummed(scores) == SumSeq(scores)

\* int(np.mean(scores)) if scores else 0
MeanScore(scores) == IF scores = <<>> THEN 0 ELSE SumSeq(scores) \div Len(scores)

\* the scorer failing on a table that already carries the column 'Год'
_calculate_trend_score_once(df) ==
    IF "date" \notin df.cols \/ "year" \in df.cols
    THEN [score |-> 0,
          analysis |-> [peak_months |-> <<>>, score_breakdown |-> <<>>, total_score |-> 0,
                        error |-> "KeyError"],
          df |-> df]
    ELSE LET df1 == Assign(df, "year", [i \in 1..Len(df.rows) |-> DtYear(df.rows[i]["date"])])
             df2 == Assign(df1, "month_num",
                           [i \in 1..Len(df.rows) |-> DtMonth(df.rows[i]["date"])])
             present == SelectIdx([m \in 1..Len(TrendMetrics) |-> TrendMetrics[m].col \in df2.cols],
                                  1, Len(TrendMetrics))
             scores == [k \in 1..Len(present) |->
                           _calculate_yoy_score(df2, TrendMetrics[present[k]].col).score]
             final_score == MeanScore(scores)
         IN  [score |-> final_score,
              analysis |-> [peak_months |-> PeakMonths(df2),
                            score_breakdown |-> [k \in 1..Len(present) |->
                                [key |-> TrendMetrics[present[k]].key, score |-> scores[k]]],
                            total_score |-> final_score,
                            error |-> NoError],
              df |-> df2]

\* returns final_score, analysis and the frame as the call leaves it
_calculate_trend_score(df) ==
    IF "date" \notin df.cols
    THEN \* df['Месяц'] raises KeyError
         [score |-> 0,
          analysis |-> [peak_months |-> <<>>, score_breakdown |-> <<>>, total_score |-> 0,
                        error |-> "KeyError"],
          df |-> df]
    ELSE LET df1 == Assign(df, "year", [i \in 1..Len(df.rows) |-> DtYear(df.rows[i]["date"])])
             df2 == Assign(df1, "month_num",
                           [i \in 1..Len(df.rows) |-> DtMonth(df.rows[i]["date"])])
             present == SelectIdx([m \in 1..Len(TrendMetrics) |-> TrendMetrics[m].col \in df2.cols],
                                  1, Len(TrendMetrics))
             scores == [k \in 1..Len(present) |->
                           _calculate_yoy_score(df2, TrendMetrics[present[k]].col).score]
             final_score == MeanScore(scores)
         IN  [score |-> final_score,
              analysis |-> [peak_months |-> PeakMonths(df2),
                            score_breakdown |-> [k \in 1..Len(present) |->
                                [key |-> TrendMetrics[present[k]].key, score |-> scores[k]]],
                            total_score |-> final_score,
                            error |-> NoError],
              df |-> df2]

-----------------------------------------------------------------------------
(* ScoringEngine: queries *)

\* the threshold ladder of _calculate_query_score over efficiency_ratio, a percentage
\* the ladder with strict comparisons
QueryThresholdScoreStrict(efficiency_ratio) ==
    IF ~RatGeqInt(Rat(-efficiency_ratio.n, efficiency_ratio.d), -20) THEN 4
    ELSE IF ~RatGeqInt(Rat(-efficiency_ratio.n, efficiency_ratio.d), -10) THEN 3
    ELSE IF ~RatGeqInt(Rat(-efficiency_ratio.n, efficiency_ratio.d), -5) THEN 2
    ELSE 1

QueryThresholdScore(efficiency_ratio) ==
    IF RatGeqInt(efficiency_ratio, 20) THEN 4
    ELSE IF RatGeqInt(efficiency_ratio, 10) THEN 3
    ELSE IF RatGeqInt(efficiency_ratio, 5) THEN 2
    ELSE 1

\* the coefficient column holds hundredths, rounded down: coefficient >= 2.0
EffectiveQueries(df) ==
    Filter(df, [i \in 1..Len(df.rows) |-> df.rows[i]["coefficient"] >= 200])

_calculate_query_score(df) ==
    LET total_queries == Len(df.rows)
        base == [total_queries |-> total_queries, effective_queries |-> 0, score |-> 0]
    IN  IF "coefficient" \notin df.cols
        THEN [score |-> 0,
              analysis |-> [base EXCEPT !.score = 0] @@ [error |-> "no_coefficient"],
              df |-> df]
        ELSE LET effective == Len(EffectiveQueries(df).rows)
             IN  IF ~({"keyword", "frequency", "products_in_query"} \subseteq df.cols)
                 THEN \* the column selection after nlargest raises KeyError
                      [score |-> 0,
                       analysis |-> [base EXCEPT !.effective_queries = effective]
                                    @@ [error |-> "KeyError"],
                       df |-> df]
                 ELSE IF total_queries = 0
                 THEN \* efficiency_ratio was never assigned: UnboundLocalError
                      [score |-> 0,
                       analysis |-> [base EXCEPT !.effective_queries = effective]
                                    @@ [error |-> "UnboundLocalError"],
                       df |-> df]
                 ELSE LET score == QueryThresholdScore(Rat(effective * 100, total_queries))
                      IN  [score |-> score,
                           analysis |-> [base EXCEPT !.effective_queries = effective,
                                                     !.score = score]
                                        @@ [error |-> NoError],
                           df |-> df]

-----------------------------------------------------------------------------
(* ScoringEngine: price segmentation *)

\* the segments at or above the median revenue and at or below the median
\* sellers
LowCompetitionSegmentsInclusive(df) ==
    LET median_revenue2 == Median2(df, "revenue_per_product")
        high == [i \in 1..Len(df.rows) |-> 2 * df.rows[i]["revenue_per_product"] >= median_revenue2]
    IN  IF "sellers" \in df.cols
        THEN Filter(df, [i \in 1..Len(df.rows) |->
                            high[i] /\ 2 * df.rows[i]["sellers"] <= Median2(df, "sellers")])
        ELSE Filter(df, high)

\* the rows with revenue per product above the median and, when the sellers
\* column exists, sellers below their median
LowCompetitionSegments(df) ==
    LET median_revenue2 == Median2(df, "revenue_per_product")
        high == [i \in 1..Len(df.rows) |-> 2 * df.rows[i]["revenue_per_product"] > median_revenue2]
    IN  IF "sellers" \in df.cols
        THEN Filter(df, [i \in 1..Len(df.rows) |->
                            high[i] /\ 2 * df.rows[i]["sellers"] < Median2(df, "sellers")])
        ELSE Filter(df, high)

\* the ladder starting at 0 for a report without a profitable segment
PriceSegmentsScoreFromZero(n) ==
    IF n >= 3 THEN 4
    ELSE IF n >= 2 THEN 3
    ELSE IF n >= 1 THEN 2
    ELSE 0

PriceSegmentsScore(n) ==
    IF n >= 3 THEN 4
    ELSE IF n >= 2 THEN 3
    ELSE IF n >= 1 THEN 2
    ELSE 1

_calculate_price_score(df) ==
    IF "revenue_per_product" \notin df.cols
    THEN [score |-> 0, analysis |-> [segments |-> 0, score |-> 0, error |-> "no_revenue_per_product"],
          df |-> df]
    ELSE IF Len(df.rows) = 0
    THEN \* idxmax of an empty column raises ValueError
         [score |-> 0, analysis |-> [segments |-> 0, score |-> 0, error |-> "ValueError"], df |-> df]
    ELSE IF ~({"price_from", "price_to"} \subseteq df.cols)
    THEN \* best_segment['От'] raises KeyError
         [score |-> 0, analysis |-> [segments |-> 0, score |-> 0, error |-> "KeyError"], df |-> df]
    ELSE LET score == PriceSegmentsScore(Len(LowCompetitionSegments(df).rows))
         IN  [score |-> score,
              analysis |-> [segments |-> Len(df.rows), score |-> score, error |-> NoError],
              df |-> df]

-----------------------------------------------------------------------------
(* ScoringEngine: daily stock *)

\* cv_stock < k/10, where cv_stock = std / mean when mean > 0 and 0 otherwise;
\* std is the sample deviation, NaN for a single row (every comparison False)
CvBelow(df, k) ==
    LET n == Len(df.rows)
        s == ColSum(df, "stock")
        q == SumSeq([i \in 1..n |-> df.rows[i]["stock"] * df.rows[i]["stock"]])
    IN  IF n = 0 \/ s <= 0 THEN TRUE
        ELSE IF n = 1 THEN FALSE
        ELSE 100 * n * (n * q - s * s) < k * k * (n - 1) * s * s

\* zero_stock_ratio < p, a percentage; NaN (0 / 0) for an empty frame
ZeroStockBelow(df, p) ==
    LET n == Len(df.rows)
        zeros == Len(Filter(df, [i \in 1..n |-> df.rows[i]["stock"] = 0]).rows)
    IN  IF n = 0 THEN FALSE ELSE zeros * 100 < p * n

\* the ladder asking for one of the two conditions of a step
StockStabilityScoreEither(df) ==
    IF CvBelow(df, 3) \/ ZeroStockBelow(df, 10) THEN 4
    ELSE IF CvBelow(df, 5) \/ ZeroStockBelow(df, 20) THEN 3
    ELSE IF CvBelow(df, 7) \/ ZeroStockBelow(df, 30) THEN 2
    ELSE 1

StockStabilityScore(df) ==
    IF CvBelow(df, 3) /\ ZeroStockBelow(df, 10) THEN 4
    ELSE IF CvBelow(df, 5) /\ ZeroStockBelow(df, 20) THEN 3
    ELSE IF CvBelow(df, 7) /\ ZeroStockBelow(df, 30) THEN 2
    ELSE 1

\* the scorer giving the lowest ladder score, unmarked, to a table without
\* its columns
_calculate_stock_score_unmarked(df) ==
    IF ~({"stock", "date"} \subseteq df.cols)
    THEN [score |-> 1, analysis |-> [score |-> 1, error |-> NoError], df |-> df]
    ELSE LET df1 == Assign(df, "year", [i \in 1..Len(df.rows) |-> DtYear(df.rows[i]["date"])])
             df2 == Assign(df1, "month", [i \in 1..Len(df.rows) |-> DtMonth(df.rows[i]["date"])])
             score == StockStabilityScore(df2)
         IN  [score |-> score, analysis |-> [score |-> score, error |-> NoError], df |-> df2]

_calculate_stock_score(df) ==
    IF ~({"stock", "date"} \subseteq df.cols)
    THEN [score |-> 0, analysis |-> [score |-> 0, error |-> "missing_columns"], df |-> df]
    ELSE LET df1 == Assign(df, "year", [i \in 1..Len(df.rows) |-> DtYear(df.rows[i]["date"])])
             df2 == Assign(df1, "month", [i \in 1..Len(df.rows) |-> DtMonth(df.rows[i]["date"])])
             score == StockStabilityScore(df2)
         IN  [score |-> score, analysis |-> [score |-> score, error |-> NoError], df |-> df2]

-----------------------------------------------------------------------------
(* ScoringEngine: advertising *)

\* the ladder with the scores of two rungs exchanged
_get_ratio_score_swapped(ratio) ==
    IF RatGeqInt(ratio, ADS_THRESHOLDS.excellent) THEN 4
    ELSE IF RatGeqInt(ratio, ADS_THRESHOLDS.good) THEN 2
    ELSE IF RatGeqInt(ratio, ADS_THRESHOLDS.average) THEN 3
    ELSE IF RatGeqInt(ratio, ADS_THRESHOLDS.poor) THEN 1
    ELSE 0

\* the ladder ending at 1, not 0
_get_ratio_score_floored(ratio) ==
    IF RatGeqInt(ratio, ADS_THRESHOLDS.excellent) THEN 4
    ELSE IF RatGeqInt(ratio, ADS_THRESHOLDS.good) THEN 3
    ELSE IF RatGeqInt(ratio, ADS_THRESHOLDS.average) THEN 2
    ELSE 1

_get_ratio_score(ratio) ==
    IF RatGeqInt(ratio, ADS_THRESHOLDS.excellent) THEN 4
    ELSE IF RatGeqInt(ratio, ADS_THRESHOLDS.good) THEN 3
    ELSE IF RatGeqInt(ratio, ADS_THRESHOLDS.average) THEN 2
    ELSE IF RatGeqInt(ratio, ADS_THRESHOLDS.poor) THEN 1
    ELSE 0

\* df[df['Category position avg'] <= limit]
TopSegment(df, limit) ==
    Filter(df, [i \in 1..Len(df.rows) |-> df.rows[i]["category_position"] <= limit])

\* avg_price / avg_cpm if avg_cpm > 0 else 0, of a non-empty segment
PriceToCpmRatio(segment) ==
    LET cpm == ColSum(segment, "search_cpm")
        price == ColSum(segment, "final_price")
    IN  IF cpm > 0 THEN Rat(price, cpm) ELSE Rat(0, 1)

_calculate_ads_score(df) ==
    IF "category_position" \notin df.cols
    THEN [score |-> 0, analysis |-> [score |-> 0, error |-> "KeyError"], df |-> df]
    ELSE IF Len(TopSegment(df, 10).rows) = 0 \/ Len(TopSegment(df, 100).rows) = 0
    THEN [score |-> 0, analysis |-> [error |-> "not_enough_top_products"], df |-> df]
    ELSE IF ~({"search_cpm", "final_price"} \subseteq df.cols)
    THEN [score |-> 0, analysis |-> [score |-> 0, error |-> "KeyError"], df |-> df]
    ELSE \* line 366 reads avg_cmp_top10, a name never assigned (line 364 assigns
         \* avg_cpm_top10): NameError, caught by the handler of line 417
         [score |-> 0, analysis |-> [score |-> 0, error |-> "NameError"], df |-> df]

-----------------------------------------------------------------------------
(* ScoringEngine: total score, rating, recommendations *)

RECURSIVE RatingFromExclusive(_, _)
\* the lookup with the upper end of each range left out
RatingFromExclusive(i, total_score) ==
    IF i > Len(TOTAL_SCORE_RANGES) THEN "poor"
    ELSE IF TOTAL_SCORE_RANGES[i].min_score <= total_score
            /\ total_score < TOTAL_SCORE_RANGES[i].max_score
         THEN TOTAL_SCORE_RANGES[i].rating
         ELSE RatingFromExclusive(i + 1, total_score)

RECURSIVE RatingFrom(_, _)
\* the loop of _get_niche_rating from range i on: the first range that holds the total
RatingFrom(i, total_score) ==
    IF i > Len(TOTAL_SCORE_RANGES) THEN "poor"
    ELSE IF TOTAL_SCORE_RANGES[i].min_score <= total_score
            /\ total_score <= TOTAL_SCORE_RANGES[i].max_score
         THEN TOTAL_SCORE_RANGES[i].rating
         ELSE RatingFrom(i + 1, total_score)

_get_niche_rating(total_score) == RatingFrom(1, total_score)

\* the recommendations without a word on a module that scored 0
_generate_recommendations_scored(results) ==
    (IF results.total_score >= 16 THEN <<"overall_excellent">>
     ELSE IF results.total_score >= 11 THEN <<"overall_good">>
     ELSE IF results.total_score >= 6 THEN <<"overall_average">>
     ELSE <<"overall_poor">>)
    \o (IF results.trend_score \in 1..2 THEN <<"trend_decline">> ELSE <<>>)
    \o (IF results.query_score >= 3 THEN <<"query_many">>
        ELSE IF results.query_score \in 1..2 THEN <<"query_few">> ELSE <<>>)
    \o (IF results.ads_score \in 1..2 THEN <<"ads_overheated">>
        ELSE IF results.ads_score >= 3 THEN <<"ads_moderate">> ELSE <<>>)

\* the recommendations with the first boundary one point higher
_generate_recommendations_late(results) ==
    (IF results.total_score >= 17 THEN <<"overall_excellent">>
     ELSE IF results.total_score >= 11 THEN <<"overall_good">>
     ELSE IF results.total_score >= 6 THEN <<"overall_average">>
     ELSE <<"overall_poor">>)
    \o (IF results.trend_score <= 2 THEN <<"trend_decline">> ELSE <<>>)
    \o (IF results.query_score >= 3 THEN <<"query_many">>
        ELSE IF results.query_score <= 2 THEN <<"query_few">> ELSE <<>>)
    \o (IF results.ads_score <= 2 THEN <<"ads_overheated">>
        ELSE IF results.ads_score >= 3 THEN <<"ads_moderate">> ELSE <<>>)

_generate_recommendations(results) ==
    (IF results.total_score >= 16 THEN <<"overall_excellent">>
     ELSE IF results.total_score >= 11 THEN <<"overall_good">>
     ELSE IF results.total_score >= 6 THEN <<"overall_average">>
     ELSE <<"overall_poor">>)
    \o (IF results.trend_score <= 2 THEN <<"trend_decline">> ELSE <<>>)
    \o (IF results.query_score >= 3 THEN <<"query_many">>
        ELSE IF results.query_score <= 2 THEN <<"query_few">> ELSE <<>>)
    \o (IF results.ads_score <= 2 THEN <<"ads_overheated">>
        ELSE IF results.ads_score >= 3 THEN <<"ads_moderate">> ELSE <<>>)

\* the scorer of a report type, applied to its table
ModuleScore(data_type, df) ==
    CASE data_type = "trends" -> _calculate_trend_score(df)
      [] data_type = "queries" -> _calculate_query_score(df)
      [] data_type = "price" -> _calculate_price_score(df)
      [] data_type = "days" -> _calculate_stock_score(df)
      [] OTHER -> _calculate_ads_score(df)

\* the scoring that stops at a failed trends module
ScoredModulesAborting(data) ==
    IF "trends" \in DOMAIN data
       /\ ModuleScore("trends", data["trends"]).analysis.error # NoError
    THEN [t \in {"trends"} |-> ModuleScore(t, data[t])]
    ELSE [t \in DOMAIN data |-> ModuleScore(t, data[t])]

\* lines 32-45: each module whose table is in loaded_data is scored, in turn
ScoredModules(data) == [t \in DOMAIN data |-> ModuleScore(t, data[t])]

\* an absent module given the neutral score
ScoreOfNeutral(scored, data_type) ==
    IF data_type \in DOMAIN scored THEN scored[data_type].score ELSE 2

\* the score a module contributes: 0 (line 20-24) unless its table was scored
ScoreOf(scored, data_type) ==
    IF data_type \in DOMAIN scored THEN scored[data_type].score ELSE 0

\* the sum with the stock score left out
TotalScoreWithoutStock(trend_score, query_score, price_score, stock_score, ads_score) ==
    trend_score + query_score + price_score + ads_score

\* the sum of lines 48-54
TotalScore(trend_score, query_score, price_score, stock_score, ads_score) ==
    trend_score + query_score + price_score + stock_score + ads_score

\* the results dict before the rating and the recommendations are added
ModuleResults(scored) ==
    [trend_score |-> ScoreOf(scored, "trends"),
     query_score |-> ScoreOf(scored, "queries"),
     price_score |-> ScoreOf(scored, "price"),
     stock_score |-> ScoreOf(scored, "days"),
     ads_score |-> ScoreOf(scored, "products"),
     total_score |-> TotalScore(ScoreOf(scored, "trends"), ScoreOf(scored, "queries"),
                                ScoreOf(scored, "price"), ScoreOf(scored, "days"),
                                ScoreOf(scored, "products")),
     detailed_analysis |->
        [k \in {AnalysisKey(t) : t \in DOMAIN scored} |->
            scored[CHOOSE t \in DOMAIN scored : AnalysisKey(t) = k].analysis]]

\* lines 57-60: the rating and the recommendations, from the results so far
RatedResults(results) ==
    results @@ [niche_rating |-> _get_niche_rating(results.total_score),
                recommendations |-> _generate_recommendations(results)]

\* ReportFormatter.generate_executive_summary: the recommendation and the risk
\* level it writes, with the total and the rating it prints
generate_executive_summary(results) ==
    LET total_score ==
            IF "total_score" \in DOMAIN results THEN results.total_score ELSE 0
        niche_rating ==
            IF "niche_rating" \in DOMAIN results THEN results.niche_rating ELSE "poor"
        level == IF total_score >= 16 THEN 1
                 ELSE IF total_score >= 11 THEN 2
                 ELSE IF total_score >= 6 THEN 3
                 ELSE 4
    IN  [recommendation |-> <<"enter", "enter_with_caution", "detailed_analysis", "do_not_enter">>[level],
         risk_level |-> <<"low", "medium", "high", "very_high">>[level],
         total_score |-> total_score,
         niche_rating |-> niche_rating]

\* the results dict of lines 48-57 for five module scores, before the
\* recommendations are added
ScoredResults(scores) ==
    LET total_score == TotalScore(scores[1], scores[2], scores[3], scores[4], scores[5])
    IN  [trend_score |-> scores[1], query_score |-> scores[2], price_score |-> scores[3],
         stock_score |-> scores[4], ads_score |-> scores[5],
         total_score |-> total_score, niche_rating |-> _get_niche_rating(total_score)]

\* every combination of five module scores
ScoreCombinations == [1..5 -> 0..SCORING_CONFIG.trend_weight]

\* the calls of _generate_recommendations (line 60) and, on the finished
\* results, of generate_executive_summary
RecommendationCalls ==
    {[fn |-> "_generate_recommendations", arg |-> ScoredResults(scores)] :
        scores \in ScoreCombinations}

SummaryOfResultsCalls ==
    {[fn |-> "generate_executive_summary", arg |-> RatedResults(ScoredResults(scores))] :
        scores \in ScoreCombinations}

\* the results dict, and the tables as the scorers leave them
ResultsOf(scored) ==
    [results |-> RatedResults(ModuleResults(scored)),
     data |-> [t \in DOMAIN scored |-> scored[t].df]]

\* returns the results dict and loaded_data as the call leaves its tables
calculate_total_score(data) == ResultsOf(ScoredModules(data))

-----------------------------------------------------------------------------
(* DataValidator.  A message is modelled by its kind; warnings and errors  *)
(* are the lists in the order the checks append to them.  Each validator   *)
(* returns its result dict and the frame as the call leaves it.            *)

If(cond, msg) == IF cond THEN <<msg>> ELSE <<>>

Count(df, keep) == Len(Filter(df, keep).rows)

Negatives(df, col) == Count(df, [i \in 1..Len(df.rows) |-> df.rows[i][col] < 0])
Zeros(df, col) == Count(df, [i \in 1..Len(df.rows) |-> df.rows[i][col] = 0])

\* values that repeat an earlier one (Series.duplicated().sum())
Duplicated(df, col) ==
    Count(df, [i \in 1..Len(df.rows) |-> \E j \in 1..(i - 1) : df.rows[j][col] = df.rows[i][col]])

\* rows where 'Товары с продажами' > 'Товары'
Inconsistent(df) ==
    Count(df, [i \in 1..Len(df.rows) |-> df.rows[i]["products_with_sales"] > df.rows[i]["products"]])

\* the consistency check dropped
ConsistencyErrorsDropped(df) == <<>>

\* lines 88-91 (trends) and 221-226 (price): rows with more products with
\* sales than products are an error
ConsistencyErrors(df) ==
    If({"products", "products_with_sales"} \subseteq df.cols /\ Inconsistent(df) > 0,
       "inconsistent_products")

\* a report that is valid only without warnings too
ValidationResultStrict(df, warnings, errors) ==
    [valid |-> Len(errors) = 0 /\ Len(warnings) = 0, warnings |-> warnings, errors |-> errors,
     records_count |-> Len(df.rows)]

ValidationResult(df, warnings, errors) ==
    [valid |-> Len(errors) = 0, warnings |-> warnings, errors |-> errors,
     records_count |-> Len(df.rows)]

\* DATA_FIELDS["trends"].values()
TrendsRequired ==
    {"date", "sales", "revenue", "products", "products_with_sales", "brands",
     "brands_with_sales", "sellers", "sellers_with_sales", "revenue_per_product", "avg_check"}

\* the checks of one column of numeric_columns
NumericWarnings(df, col) ==
    IF col \in df.cols
    THEN If(Negatives(df, col) > 0, "negative_values")
         \o If(2 * Zeros(df, col) > Len(df.rows), "half_zero_values")
    ELSE <<>>

\* (max_date - min_date).days
DateRange(df) ==
    SetMax({df.rows[i]["date"] : i \in 1..Len(df.rows)})
    - SetMin({df.rows[i]["date"] : i \in 1..Len(df.rows)})

_validate_trends_data(df) ==
    LET errors ==
            If(~(TrendsRequired \subseteq df.cols), "missing_columns")
            \o ConsistencyErrors(df)
        warnings ==
            (IF "date" \in df.cols /\ Len(df.rows) > 0
             THEN IF DateRange(df) < 30 THEN <<"period_under_month">>
                  ELSE IF DateRange(df) > 1095 THEN <<"period_over_3_years">> ELSE <<>>
             ELSE <<>>)
            \o NumericWarnings(df, "sales") \o NumericWarnings(df, "revenue")
            \o NumericWarnings(df, "products") \o NumericWarnings(df, "brands")
    IN  [result |-> ValidationResult(df, warnings, errors), df |-> df]

_validate_queries_data(df) ==
    LET both == {"frequency", "products_in_query"} \subseteq df.cols
        \* df["Коэффициент_спрос_предложение"] raises KeyError when the column is missing
        raised == both /\ "coefficient" \notin df.cols
        effective == IF both /\ ~raised THEN Len(EffectiveQueries(df).rows) ELSE 0
        errors ==
            If(~({"keyword", "frequency", "products_in_query"} \subseteq df.cols), "missing_columns")
            \o If("frequency" \in df.cols /\ Negatives(df, "frequency") > 0, "negative_frequency")
            \o If(raised, "exception")
        warnings ==
            If("keyword" \in df.cols /\ Duplicated(df, "keyword") > 0, "duplicate_keywords")
            \o If("frequency" \in df.cols /\ Zeros(df, "frequency") > 0, "zero_frequency")
            \o If("products_in_query" \in df.cols /\ Zeros(df, "products_in_query") > 0,
                  "queries_without_products")
            \o (IF both /\ ~raised
                THEN IF effective = 0 THEN <<"no_effective_queries">>
                     ELSE IF effective < 10 THEN <<"few_effective_queries">> ELSE <<>>
                ELSE <<>>)
    IN  [result |-> ValidationResult(df, warnings, errors), df |-> df]

\* consecutive ranges, sorted by 'От', where 'До' exceeds the next 'От'
Overlaps(df) ==
    LET df_sorted == SortValues(df, "price_from")
    IN  Cardinality({i \in 1..(Len(df_sorted.rows) - 1) :
            df_sorted.rows[i]["price_to"] > df_sorted.rows[i + 1]["price_from"]})

\* the validator recording overlapping ranges as an error
_validate_price_data_strict(df) ==
    IF ~({"price_from", "price_to", "revenue_per_product"} \subseteq df.cols)
    THEN [result |-> ValidationResult(df, <<>>, <<"missing_columns">>), df |-> df]
    ELSE LET invalid_ranges ==
                 Count(df, [i \in 1..Len(df.rows) |-> df.rows[i]["price_from"] >= df.rows[i]["price_to"]])
             errors ==
                 If(invalid_ranges > 0, "invalid_ranges")
                 \o If(Len(df.rows) > 0 /\ Overlaps(df) > 0, "overlapping_ranges")
                 \o If(Negatives(df, "revenue_per_product") > 0, "negative_revenue")
                 \o ConsistencyErrors(df)
             warnings == If(Zeros(df, "revenue_per_product") > 0, "zero_revenue")
         IN  [result |-> ValidationResult(df, warnings, errors), df |-> df]

_validate_price_data(df) ==
    IF ~({"price_from", "price_to", "revenue_per_product"} \subseteq df.cols)
    THEN \* the early return of lines 172-179
         [result |-> ValidationResult(df, <<>>, <<"missing_columns">>), df |-> df]
    ELSE LET invalid_ranges ==
                 Count(df, [i \in 1..Len(df.rows) |-> df.rows[i]["price_from"] >= df.rows[i]["price_to"]])
             errors ==
                 If(invalid_ranges > 0, "invalid_ranges")
                 \o If(Negatives(df, "revenue_per_product") > 0, "negative_revenue")
                 \o ConsistencyErrors(df)
             warnings ==
                 If(Len(df.rows) > 0 /\ Overlaps(df) > 0, "overlapping_ranges")
                 \o If(Zeros(df, "revenue_per_product") > 0, "zero_revenue")
         IN  [result |-> ValidationResult(df, warnings, errors), df |-> df]

\* consecutive dates, sorted, more than one day apart
DateGaps(df) ==
    LET df_sorted == SortValues(df, "date")
    IN  Cardinality({i \in 1..(Len(df_sorted.rows) - 1) :
            df_sorted.rows[i + 1]["date"] - df_sorted.rows[i]["date"] > 1})

\* the validator sorting the table it was given, not a copy
_validate_days_data_inplace(df) ==
    LET errors == If(~({"date", "stock"} \subseteq df.cols), "missing_columns")
        warnings ==
            If("date" \in df.cols /\ Len(df.rows) > 0 /\ DateGaps(df) > 0, "date_gaps")
            \o If("stock" \in df.cols /\ Negatives(df, "stock") > 0, "negative_stock")
            \o If("stock" \in df.cols /\ 10 * Zeros(df, "stock") > 3 * Len(df.rows), "many_zero_stock_days")
    IN  [result |-> ValidationResult(df, warnings, errors),
         df |-> IF "date" \in df.cols THEN SortValues(df, "date") ELSE df]

\* the validator recording negative stock as an error
_validate_days_data_strict(df) ==
    LET errors ==
            If(~({"date", "stock"} \subseteq df.cols), "missing_columns")
            \o If("stock" \in df.cols /\ Negatives(df, "stock") > 0, "negative_stock")
        warnings ==
            If("date" \in df.cols /\ Len(df.rows) > 0 /\ DateGaps(df) > 0, "date_gaps")
            \o If("stock" \in df.cols /\ 10 * Zeros(df, "stock") > 3 * Len(df.rows), "many_zero_stock_days")
    IN  [result |-> ValidationResult(df, warnings, errors), df |-> df]

_validate_days_data(df) ==
    LET errors == If(~({"date", "stock"} \subseteq df.cols), "missing_columns")
        warnings ==
            If("date" \in df.cols /\ Len(df.rows) > 0 /\ DateGaps(df) > 0, "date_gaps")
            \o If("stock" \in df.cols /\ Negatives(df, "stock") > 0, "negative_stock")
            \o If("stock" \in df.cols /\ 10 * Zeros(df, "stock") > 3 * Len(df.rows), "many_zero_stock_days")
    IN  [result |-> ValidationResult(df, warnings, errors), df |-> df]

\* the validator recording missing columns as a warning
_validate_products_data_lenient(df) ==
    LET n == Len(df.rows)
        ads_products == Count(df, [i \in 1..n |-> df.rows[i]["search_cpm"] > 0])
        errors ==
            If("final_price" \in df.cols /\ Negatives(df, "final_price") > 0, "negative_price")
        warnings ==
            If(~({"sku", "final_price", "category_position"} \subseteq df.cols), "missing_columns")
            \o If("sku" \in df.cols /\ Duplicated(df, "sku") > 0, "duplicate_sku")
            \o If("final_price" \in df.cols /\ Zeros(df, "final_price") > 0, "zero_price")
            \o (IF "search_cpm" \in df.cols /\ n > 0
                THEN IF ads_products * 100 < 10 * n THEN <<"few_ads_products">>
                     ELSE IF ads_products * 100 > 90 * n THEN <<"many_ads_products">> ELSE <<>>
                ELSE <<>>)
            \o (IF "category_position" \in df.cols
                THEN If(Len(TopSegment(df, 10).rows) = 0, "no_top_10")
                     \o If(Len(TopSegment(df, 100).rows) < 10, "few_top_100")
                ELSE <<>>)
    IN  [result |-> ValidationResult(df, warnings, errors), df |-> df]

_validate_products_data(df) ==
    LET n == Len(df.rows)
        ads_products == Count(df, [i \in 1..n |-> df.rows[i]["search_cpm"] > 0])
        errors ==
            If(~({"sku", "final_price", "category_position"} \subseteq df.cols), "missing_columns")
            \o If("final_price" \in df.cols /\ Negatives(df, "final_price") > 0, "negative_price")
        warnings ==
            If("sku" \in df.cols /\ Duplicated(df, "sku") > 0, "duplicate_sku")
            \o If("final_price" \in df.cols /\ Zeros(df, "final_price") > 0, "zero_price")
            \o (IF "search_cpm" \in df.cols /\ n > 0
                THEN IF ads_products * 100 < 10 * n THEN <<"few_ads_products">>
                     ELSE IF ads_products * 100 > 90 * n THEN <<"many_ads_products">> ELSE <<>>
                ELSE <<>>)
            \o (IF "category_position" \in df.cols
                THEN If(Len(TopSegment(df, 10).rows) = 0, "no_top_10")
                     \o If(Len(TopSegment(df, 100).rows) < 10, "few_top_100")
                ELSE <<>>)
    IN  [result |-> ValidationResult(df, warnings, errors), df |-> df]

_validate_by_type(df, data_type) ==
    CASE data_type = "trends" -> _validate_trends_data(df)
      [] data_type = "queries" -> _validate_queries_data(df)
      [] data_type = "price" -> _validate_price_data(df)
      [] data_type = "days" -> _validate_days_data(df)
      [] data_type = "products" -> _validate_products_data(df)
      [] OTHER -> [result |-> [valid |-> TRUE, warnings |-> <<>>, errors |-> <<>>], df |-> df]

\* returns validation_results and loaded_data as the call leaves its tables
validate_all_data(data) ==
    [results |-> [t \in DOMAIN data |-> _validate_by_type(data[t], t).result],
     data |-> [t \in DOMAIN data |-> _validate_by_type(data[t], t).df]]

-----------------------------------------------------------------------------
(* FileProcessor.  A file is [file_type, df]: the type detect_file_type     *)
(* finds from its name (None when no pattern matches) and the frame as     *)
(* read.  _process_by_type returns the processed frame, or None.           *)

None == [cols |-> {"None"}, rows |-> <<>>]

_process_trends_data(df) ==
    IF ~({"date", "sales", "revenue"} \subseteq df.cols) THEN None
    ELSE LET df1 == Assign(df, "year", [i \in 1..Len(df.rows) |-> DtYear(df.rows[i]["date"])])
         IN  Assign(df1, "month_num", [i \in 1..Len(df.rows) |-> DtMonth(df.rows[i]["date"])])

\* 'Частота WB' / 'Товаров в запросе'.replace(0, 1), in hundredths rounded down
Coefficient(row) ==
    (100 * row["frequency"]) \div (IF row["products_in_query"] = 0 THEN 1 ELSE row["products_in_query"])

_process_queries_data(df) ==
    IF ~({"keyword", "frequency", "products_in_query"} \subseteq df.cols) THEN None
    ELSE Assign(df, "coefficient", [i \in 1..Len(df.rows) |-> Coefficient(df.rows[i])])

\* the frame is taken as read with its header row found; without 'От' and 'До'
\* the structure is not recognised
_process_price_data(df) ==
    IF ~({"price_from", "price_to"} \subseteq df.cols) THEN None
    ELSE IF Len(df.rows) = 0 THEN None
    ELSE df

\* Series.dt.dayofweek: Monday is 0; 2023-01-01 is a Sunday
DtDayOfWeek(d) == (d + 6) % 7

_process_days_data(df) ==
    IF "date" \notin df.cols THEN None
    ELSE LET df1 == Assign(df, "year", [i \in 1..Len(df.rows) |-> DtYear(df.rows[i]["date"])])
             df2 == Assign(df1, "month", [i \in 1..Len(df.rows) |-> DtMonth(df.rows[i]["date"])])
         IN  Assign(df2, "day_of_week", [i \in 1..Len(df.rows) |-> DtDayOfWeek(df.rows[i]["date"])])

_process_products_data(df) ==
    IF ~({"sku", "name", "final_price"} \subseteq df.cols) THEN None
    ELSE df

_process_by_type(df, file_type) ==
    CASE file_type = "trends" -> _process_trends_data(df)
      [] file_type = "queries" -> _process_queries_data(df)
      [] file_type = "price" -> _process_price_data(df)
      [] file_type = "days" -> _process_days_data(df)
      [] file_type = "products" -> _process_products_data(df)
      [] OTHER -> df

RECURSIVE ProcessFrom(_, _, _)
\* the loop of process_uploaded_files from file i on: a later file of a type
\* replaces an earlier one
ProcessFrom(uploaded_files, i, processed_data) ==
    IF i > Len(uploaded_files) THEN processed_data
    ELSE LET file == uploaded_files[i]
             processed_df == _process_by_type(file.df, file.file_type)
         IN  IF file.file_type = "None" \/ processed_df = None
             THEN ProcessFrom(uploaded_files, i + 1, processed_data)
             ELSE ProcessFrom(uploaded_files, i + 1,
                      [t \in DOMAIN processed_data \cup {file.file_type} |->
                          IF t = file.file_type THEN processed_df ELSE processed_data[t]])

process_uploaded_files(uploaded_files) == ProcessFrom(uploaded_files, 1, <<>>)

-----------------------------------------------------------------------------
(* The tables the model draws its inputs from *)

\* the sequences of at most n elements of S
RECURSIVE SeqsUpTo(_, _)
SeqsUpTo(S, n) ==
    IF n = 0 THEN {<<>>}
    ELSE LET shorter == SeqsUpTo(S, n - 1)
         IN  shorter \cup {Append(q, x) : q \in {r \in shorter : Len(r) = n - 1}, x \in S}

\* the frame with only the columns cols
Project(df, cols) ==
    DataFrame(cols, [i \in 1..Len(df.rows) |-> [c \in cols |-> df.rows[i][c]]])

\* every frame of at most n rows of rowset, and each of its projections of at
\* most one row on a column set of colsets
Frames(rowset, allcols, colsets, n) ==
    {DataFrame(allcols, rows) : rows \in SeqsUpTo(rowset, n)}
    \cup {Project(DataFrame(allcols, rows), cols) :
            rows \in SeqsUpTo(rowset, 1), cols \in colsets}

\* a month of a trends report; its metric columns move with p (all products)
\* and q (products with sales)
TrendsRow(date, p, q) ==
    [date |-> date, sales |-> p, revenue |-> p, products |-> p, products_with_sales |-> q,
     brands |-> p, brands_with_sales |-> q, sellers |-> 1, sellers_with_sales |-> 1,
     revenue_per_product |-> 1, avg_check |-> 100]

TrendsRows ==
    {TrendsRow(date, p, q) :
        date \in {DateOf(2023, 1, 1), DateOf(2023, 2, 1), DateOf(2024, 1, 1)},
        p \in {0, 96, 100, 110}, q \in {96, 110}}

TrendsColSets ==
    {TrendsRequired \ {"date"}, TrendsRequired \ {"sales"}, TrendsRequired \ {"revenue_per_product"},
     TrendsRequired \ {"products"}, {"date", "sales", "revenue"}}

\* trends reports as read from a file
TrendsFiles == Frames(TrendsRows, TrendsRequired, TrendsColSets, MaxRows)

QueriesRow(keyword, frequency, products_in_query) ==
    [keyword |-> keyword, frequency |-> frequency, products_in_query |-> products_in_query]

QueriesRows ==
    {QueriesRow(k, f, n) : k \in {1, 2}, f \in {-5, 0, 10, 30}, n \in {0, 10}}

QueriesCols == {"keyword", "frequency", "products_in_query"}

QueriesFiles == Frames(QueriesRows, QueriesCols, {{"keyword", "frequency"}}, MaxRows)

PriceRow(price_from, price_to, revenue_per_product, sellers, products_with_sales) ==
    [price_from |-> price_from, price_to |-> price_to,
     revenue_per_product |-> revenue_per_product, sellers |-> sellers,
     products |-> 10, products_with_sales |-> products_with_sales]

PriceRows ==
    {PriceRow(r[1], r[2], v, n, q) :
        r \in {<<0, 100>>, <<50, 200>>, <<100, 100>>}, v \in {0, 10, 20}, n \in {1, 5}, q \in {5, 20}}

PriceCols ==
    {"price_from", "price_to", "revenue_per_product", "sellers", "products", "products_with_sales"}

PriceColSets ==
    {PriceCols \ {"revenue_per_product"}, PriceCols \ {"sellers"}, PriceCols \ {"price_from"},
     PriceCols \ {"products"}}

PriceFiles == Frames(PriceRows, PriceCols, PriceColSets, MaxRows)

DaysRow(date, stock) == [date |-> date, stock |-> stock]

DaysRows ==
    {DaysRow(date, stock) :
        date \in {DateOf(2023, 1, 1), DateOf(2023, 1, 2), DateOf(2023, 1, 4), DateOf(2024, 1, 1)},
        stock \in {-5, 0, 10, 20}}

DaysFiles == Frames(DaysRows, {"date", "stock"}, {{"date"}, {"stock"}}, MaxRows)

ProductsRow(category_position, final_price, search_cpm) ==
    [sku |-> category_position, name |-> 1, final_price |-> final_price,
     category_position |-> category_position, search_cpm |-> search_cpm,
     search_words_in_ads |-> search_cpm]

ProductsRows ==
    {ProductsRow(pos, price, cpm) :
        pos \in {5, 50, 150}, price \in {-100, 100, 500}, cpm \in {0, 100, 300}}

ProductsCols ==
    {"sku", "name", "final_price", "category_position", "search_cpm", "search_words_in_ads"}

ProductsColSets ==
    {ProductsCols \ {"category_position"}, ProductsCols \ {"search_cpm"},
     ProductsCols \ {"final_price"}, ProductsCols \ {"sku"}}

ProductsFiles == Frames(ProductsRows, ProductsCols, ProductsColSets, MaxRows)

FilesOf(data_type) ==
    CASE data_type = "trends" -> TrendsFiles
      [] data_type = "queries" -> QueriesFiles
      [] data_type = "price" -> PriceFiles
      [] data_type = "days" -> DaysFiles
      [] OTHER -> ProductsFiles

\* the tables a scorer or a validator may be handed: a report as read, or as
\* the file processor leaves it
TablesOf(data_type) ==
    FilesOf(data_type)
    \cup ({_process_by_type(df, data_type) : df \in FilesOf(data_type)} \ {None})

-----------------------------------------------------------------------------
(* The dicts handed to calculate_total_score and validate_all_data: every  *)
(* subset of the report types, each with one of a few tables of its type.  *)

SampleFiles(data_type) ==
    CASE data_type = "trends" ->
            { DataFrame(TrendsRequired,
                        <<TrendsRow(DateOf(2023, 1, 1), 100, 96), TrendsRow(DateOf(2024, 1, 1), 110, 110)>>),
              DataFrame(TrendsRequired, <<TrendsRow(DateOf(2023, 1, 1), 100, 110)>>),
              DataFrame(TrendsRequired \ {"date"}, <<[c \in TrendsRequired \ {"date"} |-> 100]>>) }
      [] data_type = "queries" ->
            { DataFrame(QueriesCols, <<QueriesRow(1, 30, 10), QueriesRow(2, 10, 10)>>),
              DataFrame(QueriesCols, <<QueriesRow(1, -5, 10)>>),
              DataFrame(QueriesCols, <<>>) }
      [] data_type = "price" ->
            { DataFrame(PriceCols, <<PriceRow(0, 100, 20, 1, 5), PriceRow(100, 200, 10, 5, 5)>>),
              DataFrame(PriceCols, <<PriceRow(0, 100, 20, 1, 20)>>),
              DataFrame(PriceCols \ {"revenue_per_product"},
                        <<[c \in PriceCols \ {"revenue_per_product"} |-> 10]>>) }
      [] data_type = "days" ->
            { DataFrame({"date", "stock"},
                        <<DaysRow(DateOf(2023, 1, 2), 10), DaysRow(DateOf(2023, 1, 1), 10)>>),
              DataFrame({"date", "stock"}, <<DaysRow(DateOf(2023, 1, 1), -5)>>),
              DataFrame({"date"}, <<[date |-> DateOf(2023, 1, 1)]>>) }
      [] OTHER ->
            { DataFrame(ProductsCols, <<ProductsRow(5, 500, 100), ProductsRow(50, 100, 300)>>),
              DataFrame(ProductsCols, <<ProductsRow(150, -100, 0)>>),
              DataFrame(ProductsCols \ {"category_position"},
                        <<[c \in ProductsCols \ {"category_position"} |-> 100]>>) }

\* the sample tables as read and as processed
SampleTables(data_type) ==
    SampleFiles(data_type)
    \cup ({_process_by_type(df, data_type) : df \in SampleFiles(data_type)} \ {None})

TypeOrder == <<"trends", "queries", "price", "days", "products">>

RECURSIVE DictsFrom(_)
DictsFrom(i) ==
    IF i > Len(TypeOrder) THEN {<<>>}
    ELSE LET rest == DictsFrom(i + 1)
         IN  rest \cup {[t \in DOMAIN d \cup {TypeOrder[i]} |->
                             IF t = TypeOrder[i] THEN df ELSE d[t]] :
                         d \in rest, df \in SampleTables(TypeOrder[i])}

Dicts == DictsFrom(1)

\* DataValidator.get_validation_summary over self.validation_results, the
\* list files_with_errors as the set of its report types
get_validation_summary(results) ==
    LET Total(field) ==
            SumSeq([i \in DOMAIN TypeOrder |->
                       IF TypeOrder[i] \in DOMAIN results THEN Len(results[TypeOrder[i]][field]) ELSE 0])
        total_errors == Total("errors")
    IN  [total_files |-> Cardinality(DOMAIN results),
         valid_files |-> Cardinality({t \in DOMAIN results : results[t].valid}),
         total_errors |-> total_errors,
         total_warnings |-> Total("warnings"),
         files_with_errors |-> {t \in DOMAIN results : ~results[t].valid},
         overall_valid |-> total_errors = 0]

\* the calls of get_validation_summary after validate_all_data on a dict
SummaryCalls ==
    {[fn |-> "get_validation_summary", arg |-> validate_all_data(d).results] : d \in Dicts}

\* two years of one metric, 200 and then 200 + k: an average YoY change of k/2 %
YearlyFrame(k) ==
    DataFrame({"year", "metric"}, <<[year |-> 2023, metric |-> 200], [year |-> 2024, metric |-> 200 + k]>>)

\* the stock levels a generated daily report alternates with 1
StockLevels == {1, 2, 3, 6}

\* a daily report of MaxDays consecutive days, the first k of them without
\* stock, the others with stock 1 and v in turn
StockFrame(k, v) ==
    DataFrame({"date", "stock"},
              [i \in 1..MaxDays |->
                  DaysRow(DateOf(2023, 1, 1) + (i - 1),
                          IF i <= k THEN 0 ELSE IF i % 2 = 1 THEN 1 ELSE v)])

\* a price report of MaxSegments segments with the given columns, the first k
\* of them with revenue per product 20 and one seller, the others with 10 and 5
SegmentsFrame(k, cols) ==
    DataFrame(cols,
              [i \in 1..MaxSegments |->
                  [c \in cols |->
                      PriceRow(100 * (i - 1), 100 * i, IF i <= k THEN 20 ELSE 10,
                               IF i <= k THEN 1 ELSE 5, 5)[c]]])

\* a processed queries report of n rows, the first k of them effective
QueriesFrame(k, n) ==
    _process_queries_data(
        DataFrame(QueriesCols,
                  [i \in 1..n |-> IF i <= k THEN QueriesRow(i, 30, 10) ELSE QueriesRow(i, 10, 10)]))

-----------------------------------------------------------------------------
(* FileUploader._generate_sample_data.  datetime.now() and the values of    *)
(* np.random.randint are drawn from a few choices: a trends table holds one  *)
(* level of its columns in its first six months and one in its last six, a  *)
(* products table one price and one bid throughout.                          *)

SampleMonths == 12
SampleProducts == 100

\* datetime.now(): the twelve dates span two calendar years, or one
SampleEndDates == {DateOf(2024, 6, 15), DateOf(2024, 12, 30)}

\* the low and the high end of np.random.randint(low, high) of each column
SampleTrendsRow(date, level) ==
    [date |-> date,
     sales |-> IF level = 0 THEN 1000 ELSE 4999,
     revenue |-> IF level = 0 THEN 500000 ELSE 1999999,
     products |-> IF level = 0 THEN 100 ELSE 299,
     products_with_sales |-> IF level = 0 THEN 50 ELSE 149,
     brands |-> IF level = 0 THEN 20 ELSE 49,
     brands_with_sales |-> IF level = 0 THEN 15 ELSE 34,
     sellers |-> IF level = 0 THEN 30 ELSE 79,
     sellers_with_sales |-> IF level = 0 THEN 20 ELSE 59,
     avg_check |-> IF level = 0 THEN 800 ELSE 1499]

\* dates = [end_date - timedelta(days=30*i) for i in range(12)][::-1]
SampleTrendsData(end_date, first, last) ==
    DataFrame(TrendsRequired \ {"revenue_per_product"},
              [i \in 1..SampleMonths |->
                  SampleTrendsRow(end_date - 30 * (SampleMonths - i),
                                  IF 2 * i <= SampleMonths THEN first ELSE last)])

SampleProductsRow(i, category_position, final_price, search_cpm) ==
    [sku |-> 1000000 + i, name |-> i, category |-> 0, brand |-> i % 10,
     final_price |-> final_price, sales |-> 0, revenue |-> 0,
     category_position |-> category_position, search_cpm |-> search_cpm,
     search_words_in_ads |-> 0, search_organic_position |-> 1]

\* the positions run over 1..199 from first on
SampleProductsData(first, final_price, search_cpm) ==
    LET row == SampleProductsRow(0, 1, 500, 50)
    IN  DataFrame(DOMAIN row,
                  [i \in 1..SampleProducts |->
                      SampleProductsRow(i - 1, first + (i - 1), final_price, search_cpm)])

_generate_sample_data ==
    {[t \in {"trends", "products"} |-> IF t = "trends" THEN trends_data ELSE products_data] :
        trends_data \in {SampleTrendsData(end_date, levels[1], levels[2]) :
                            end_date \in SampleEndDates, levels \in {<<0, 1>>, <<1, 1>>}},
        products_data \in {SampleProductsData(first, 2999, 50) : first \in {1, 100}}}

-----------------------------------------------------------------------------
(* Library calls: one call of one function on one argument *)

\* the calls of _validate_by_type on the tables of one report type
ValidateCalls(data_type) ==
    {[fn |-> "_validate_by_type", arg |-> [df |-> df, data_type |-> data_type]] :
        df \in TablesOf(data_type)}

\* the method that scores the table of a report type (lines 32-45)
ScorerOf(data_type) ==
    CASE data_type = "trends" -> "_calculate_trend_score"
      [] data_type = "queries" -> "_calculate_query_score"
      [] data_type = "price" -> "_calculate_price_score"
      [] data_type = "days" -> "_calculate_stock_score"
      [] OTHER -> "_calculate_ads_score"

\* the calls of the scorer of one report type on the tables of that type
ScorerCalls(data_type) ==
    {[fn |-> ScorerOf(data_type), arg |-> df] : df \in TablesOf(data_type)}

TrendsValidateCalls == ValidateCalls("trends")
QueriesValidateCalls == ValidateCalls("queries")
PriceValidateCalls == ValidateCalls("price")
DaysValidateCalls == ValidateCalls("days")
ProductsValidateCalls == ValidateCalls("products")

TrendsScorerCalls == ScorerCalls("trends")
QueriesScorerCalls ==
    ScorerCalls("queries")
    \cup {[fn |-> ScorerOf("queries"), arg |-> QueriesFrame(k, MaxQueries)] : k \in 0..MaxQueries}
PriceScorerCalls ==
    ScorerCalls("price")
    \cup {[fn |-> ScorerOf("price"), arg |-> SegmentsFrame(k, cols)] :
             k \in 0..MaxSegments, cols \in {PriceCols, PriceCols \ {"sellers"}}}
DaysScorerCalls ==
    ScorerCalls("days")
    \cup {[fn |-> ScorerOf("days"), arg |-> StockFrame(k, v)] : k \in 0..MaxDays, v \in StockLevels}
ProductsScorerCalls == ScorerCalls("products")

\* the calls on dicts of tables and on numbers
DictCalls ==
    {[fn |-> "calculate_total_score", arg |-> d] : d \in Dicts}
    \cup {[fn |-> "validate_all_data", arg |-> d] : d \in Dicts}

LadderCalls ==
    {[fn |-> "_calculate_yoy_score", arg |-> YearlyFrame(k)] : k \in (-MaxProbe)..MaxProbe}
    \cup {[fn |-> "_get_ratio_score", arg |-> Rat(k, 2)] : k \in 0..MaxProbe}
    \cup {[fn |-> "_get_niche_rating", arg |-> total] : total \in 0..SCORING_CONFIG.max_total_score}

Pending == [pending |-> TRUE]

Return(value, after) ==
    /\ pc' = "return"
    /\ ret' = value
    /\ arg_after' = after
    /\ UNCHANGED <<call, loaded_data, validation_results, scoring_results, analysis_results,
                   file_info, processor_file_info>>

\* a call that returns r.results and leaves its argument as r.data
ReturnResults(r) == Return(r.results, r.data)

CallCalculateTotalScore ==
    /\ pc = "call" /\ call.fn = "calculate_total_score"
    /\ ReturnResults(calculate_total_score(call.arg))

CallValidateAllData ==
    /\ pc = "call" /\ call.fn = "validate_all_data"
    /\ ReturnResults(validate_all_data(call.arg))

ReturnValidation(r, arg) == Return(r.result, [arg EXCEPT !.df = r.df])

CallValidateByType ==
    /\ pc = "call" /\ call.fn = "_validate_by_type"
    /\ ReturnValidation(_validate_by_type(call.arg.df, call.arg.data_type), call.arg)

\* a scorer returns (score, analysis) and leaves its table as r.df
ReturnScore(r) == Return([score |-> r.score, analysis |-> r.analysis], r.df)

CallModuleScore ==
    /\ pc = "call"
    /\ \E t \in DataTypes :
          /\ call.fn = ScorerOf(t)
          /\ ReturnScore(ModuleScore(t, call.arg))

CallCalculateYoyScore ==
    /\ pc = "call" /\ call.fn = "_calculate_yoy_score"
    /\ Return(_calculate_yoy_score(call.arg, "metric"), call.arg)

CallGetRatioScore ==
    /\ pc = "call" /\ call.fn = "_get_ratio_score"
    /\ Return(_get_ratio_score(call.arg), call.arg)

CallGenerateRecommendations ==
    /\ pc = "call" /\ call.fn = "_generate_recommendations"
    /\ Return(_generate_recommendations(call.arg), call.arg)

CallGenerateExecutiveSummary ==
    /\ pc = "call" /\ call.fn = "generate_executive_summary"
    /\ Return(generate_executive_summary(call.arg), call.arg)

CallGetValidationSummary ==
    /\ pc = "call" /\ call.fn = "get_validation_summary"
    /\ Return(get_validation_summary(call.arg), call.arg)

CallGetNicheRating ==
    /\ pc = "call" /\ call.fn = "_get_niche_rating"
    /\ Return(_get_niche_rating(call.arg), call.arg)

-----------------------------------------------------------------------------
(* The session: upload, scoring, refresh and clear, one script run each *)

\* a dict is empty (falsy)
Empty(d) == DOMAIN d = {}

UploadFiles ==
    UNION {{[file_type |-> t, df |-> df] : df \in SampleFiles(t)} : t \in DataTypes}
    \cup {[file_type |-> "None", df |-> DataFrame({}, <<>>)]}

\* the name of a file this session uploads, and of one another session uploads
SessionFile == "session_upload"
OtherSessionFile == "other_session_upload"

\* FileProcessor.file_info after process_uploaded_files (lines 49-55): the entry
\* of each type processed is written, the others stay.  An entry is modelled
\* by its filename; its row and column counts are left out.
FileInfoAfter(info, processed_data, filename) ==
    [t \in DOMAIN info \cup DOMAIN processed_data |->
        IF t \in DOMAIN processed_data THEN [filename |-> filename] ELSE info[t]]

\* st.session_state.file_info as the session reads it
FileInfo ==
    CASE file_info.ref = "processor" -> processor_file_info
      [] file_info.ref = "own" -> file_info.value
      [] OTHER -> <<>>

\* lines 111-122 of _process_uploaded_files: nothing is stored when no file
\* was processed; otherwise the tables are validated and stored
StoreValidated(validated) ==
    /\ loaded_data' = validated.data
    /\ validation_results' = validated.results

\* get_file_info returns the processor's dict itself, not a copy (line 121)
StoreLoaded(processed) ==
    IF Empty(processed)
    THEN UNCHANGED <<loaded_data, validation_results, file_info>>
    ELSE /\ StoreValidated(validate_all_data(processed))
         /\ file_info' = [ref |-> "processor"]

\* the upload interface shown also while data is loaded
ProcessUploadedFilesAnytime ==
    /\ pc = "idle"
    /\ \E uploaded_files \in SeqsUpTo(UploadFiles, MaxFiles) \ {<<>>} :
          /\ StoreLoaded(process_uploaded_files(uploaded_files))
          /\ processor_file_info' =
                FileInfoAfter(processor_file_info, process_uploaded_files(uploaded_files),
                              SessionFile)
    /\ UNCHANGED <<scoring_results, analysis_results, pc, call, ret, arg_after>>

\* FileUploader._process_uploaded_files, reached from render_main_dashboard
\* while loaded_data is empty
ProcessUploadedFiles ==
    /\ pc = "idle"
    /\ Empty(loaded_data)
    /\ \E uploaded_files \in SeqsUpTo(UploadFiles, MaxFiles) \ {<<>>} :
          /\ StoreLoaded(process_uploaded_files(uploaded_files))
          /\ processor_file_info' =
                FileInfoAfter(processor_file_info, process_uploaded_files(uploaded_files),
                              SessionFile)
    /\ UNCHANGED <<scoring_results, analysis_results, pc, call, ret, arg_after>>

\* FileUploader._load_sample_data, the button of the upload interface: the
\* sample tables are validated and stored as generated, with a file_info dict
\* of their own
LoadSampleData ==
    /\ pc = "idle"
    /\ Empty(loaded_data)
    /\ \E sample_data \in _generate_sample_data :
          StoreValidated(validate_all_data(sample_data))
    /\ file_info' = [ref |-> "own",
                     value |-> [t \in {"trends", "products"} |->
                                   [filename |-> IF t = "trends" THEN "sample_trends.xlsx"
                                                 ELSE "sample_products.csv"]]]
    /\ UNCHANGED <<scoring_results, analysis_results, processor_file_info,
                   pc, call, ret, arg_after>>

\* the report types another session uploads a file of
OtherSessionTypes == {"trends", "queries"}

\* _process_uploaded_files run by another session: its store is its own, the
\* file processor is the one of this session
OtherSessionUpload ==
    /\ pc = "idle"
    /\ \E t \in OtherSessionTypes : \E df \in SampleFiles(t) :
          processor_file_info' =
              FileInfoAfter(processor_file_info,
                            process_uploaded_files(<<[file_type |-> t, df |-> df]>>),
                            OtherSessionFile)
    /\ UNCHANGED <<loaded_data, validation_results, scoring_results, analysis_results,
                   file_info, pc, call, ret, arg_after>>

\* run_analysis: the analysers work on copies of the tables; each one either
\* completes or fails, and a failure is caught and leaves no entry
RunAnalysis(data) == SUBSET {AnalysisKey(t) : t \in DOMAIN data}

\* calculate_scoring: what calculate_total_score returns
calculate_scoring(data) == calculate_total_score(data)

\* st.session_state.scoring_results = scoring_results; the tables of
\* loaded_data are the objects the engine worked on
StoreScoring(scored) ==
    /\ scoring_results' = scored.results
    /\ loaded_data' = scored.data

\* the button of render_main_dashboard when data is loaded and no score is:
\* the scoring runs, then the analysis if there is none
DashboardCalculateScoring ==
    /\ pc = "idle"
    /\ ~Empty(loaded_data)
    /\ Empty(scoring_results)
    /\ IF analysis_results = {}
       THEN analysis_results' \in RunAnalysis(loaded_data)
       ELSE UNCHANGED analysis_results
    /\ StoreScoring(calculate_scoring(loaded_data))
    /\ UNCHANGED <<validation_results, file_info, processor_file_info, pc, call, ret, arg_after>>

\* the button of render_scoring_page
ScoringPageCalculateScoring ==
    /\ pc = "idle"
    /\ ~Empty(loaded_data)
    /\ Empty(scoring_results)
    /\ StoreScoring(calculate_scoring(loaded_data))
    /\ UNCHANGED <<analysis_results, validation_results, file_info, processor_file_info,
                   pc, call, ret, arg_after>>

\* Sidebar._render_quick_actions, 'refresh analysis': both results are deleted
\* and initialize_session_state creates them empty on the rerun
RefreshAnalysis ==
    /\ pc = "idle"
    /\ scoring_results' = <<>>
    /\ analysis_results' = {}
    /\ UNCHANGED <<loaded_data, validation_results, file_info, processor_file_info,
                   pc, call, ret, arg_after>>

\* the clearing that leaves the scoring results in the session
ClearSessionKeysButScoring ==
    /\ loaded_data' = <<>>
    /\ validation_results' = <<>>
    /\ scoring_results' = scoring_results
    /\ analysis_results' = {}
    /\ file_info' = [ref |-> "none"]

\* the five keys are deleted from the session state; initialize_session_state
\* creates loaded_data, analysis_results and scoring_results empty on the rerun
ClearSessionKeys ==
    /\ loaded_data' = <<>>
    /\ validation_results' = <<>>
    /\ scoring_results' = <<>>
    /\ analysis_results' = {}
    /\ file_info' = [ref |-> "none"]

\* Sidebar._clear_all_data, then initialize_session_state on the rerun
ClearAllData ==
    /\ pc = "idle"
    /\ ClearSessionKeys
    /\ UNCHANGED <<processor_file_info, pc, call, ret, arg_after>>

\* 'reload files' of FileUploader._render_loaded_data_status, which render()
\* shows when data is loaded: _clear_loaded_data, then the rerun
ReloadFiles ==
    /\ pc = "idle"
    /\ ~Empty(loaded_data)
    /\ ClearSessionKeys
    /\ UNCHANGED <<processor_file_info, pc, call, ret, arg_after>>

-----------------------------------------------------------------------------
(* Specifications *)

SessionInit ==
    /\ loaded_data = <<>>
    /\ validation_results = <<>>
    /\ scoring_results = <<>>
    /\ analysis_results = {}
    /\ file_info = [ref |-> "none"]
    /\ processor_file_info = <<>>

\* the application: one user session, and the uploads of another
Init ==
    /\ SessionInit
    /\ pc = "idle"
    /\ call = [fn |-> "none", arg |-> 0]
    /\ ret = Pending
    /\ arg_after = 0

Next ==
    \/ ProcessUploadedFiles
    \/ LoadSampleData
    \/ DashboardCalculateScoring
    \/ ScoringPageCalculateScoring
    \/ RefreshAnalysis
    \/ ClearAllData
    \/ ReloadFiles
    \/ OtherSessionUpload

Spec == Init /\ [][Next]_vars

\* the engine and the validator called as functions
InitFn ==
    /\ SessionInit
    /\ pc = "call"
    /\ \/ call \in DictCalls
       \/ call \in LadderCalls
       \/ call \in TrendsValidateCalls
       \/ call \in QueriesValidateCalls
       \/ call \in PriceValidateCalls
       \/ call \in DaysValidateCalls
       \/ call \in ProductsValidateCalls
       \/ call \in TrendsScorerCalls
       \/ call \in QueriesScorerCalls
       \/ call \in PriceScorerCalls
       \/ call \in DaysScorerCalls
       \/ call \in ProductsScorerCalls
       \/ call \in SummaryCalls
       \/ call \in RecommendationCalls
       \/ call \in SummaryOfResultsCalls
    /\ ret = Pending
    /\ arg_after = call.arg

NextFn ==
    \/ CallCalculateTotalScore
    \/ CallValidateAllData
    \/ CallValidateByType
    \/ CallModuleScore
    \/ CallCalculateYoyScore
    \/ CallGetRatioScore
    \/ CallGetNicheRating
    \/ CallGetValidationSummary
    \/ CallGenerateRecommendations
    \/ CallGenerateExecutiveSummary

SpecFn == InitFn /\ [][NextFn]_vars

-----------------------------------------------------------------------------
(* Properties.  Under SpecFn a state with pc = "return" holds one finished  *)
(* call: call.arg is the argument as passed, ret the value returned and     *)
(* arg_after the argument as the call left it.                              *)

Returned(fn) == pc = "return" /\ call.fn = fn

Range(s) == {s[i] : i \in DOMAIN s}

ScoreKeys == {ScoreKey(t) : t \in DataTypes}

\* C1: each of the five module scores in a result of calculate_total_score,
\* and the score each module scorer returns for any table, is an integer in 0..4,
\* whichever tables are present and also when a module's computation fails.
C1_ModuleScoresInRange ==
    /\ Returned("calculate_total_score") => \A k \in ScoreKeys : ret[k] \in 0..4
    /\ \A t \in DataTypes : Returned(ScorerOf(t)) => ret.score \in 0..4

\* a result over all five tables where one module failed and another scored 4
C1_Witness ==
    /\ Returned("calculate_total_score")
    /\ DOMAIN call.arg = DataTypes
    /\ \E k \in DOMAIN ret.detailed_analysis : ret.detailed_analysis[k].error # NoError
    /\ \E k \in ScoreKeys : ret[k] = 4

\* C2: in every result of calculate_total_score, total_score is exactly
\* trend_score + query_score + price_score + stock_score + ads_score, and it
\* lies in 0..20.
C2_TotalIsSumWithinRange ==
    Returned("calculate_total_score") =>
        /\ ret.total_score = ret.trend_score + ret.query_score + ret.price_score
                             + ret.stock_score + ret.ads_score
        /\ ret.total_score \in 0..SCORING_CONFIG.max_total_score

\* a result in which at least three modules scored
C2_Witness ==
    /\ Returned("calculate_total_score")
    /\ Cardinality({k \in ScoreKeys : ret[k] > 0}) >= 3
    /\ ret.total_score >= 10

\* C3: over the totals 0..20 the rating lookup is total and non-overlapping: a
\* total matches at most one range, 1-5 is poor, 6-10 average, 11-15 good,
\* 16-20 excellent, and 0, which no range holds, falls back to poor.
C3_RatingTotalNonOverlapping ==
    Returned("_get_niche_rating") =>
        /\ Cardinality({i \in DOMAIN TOTAL_SCORE_RANGES :
                TOTAL_SCORE_RANGES[i].min_score <= call.arg
                /\ call.arg <= TOTAL_SCORE_RANGES[i].max_score}) <= 1
        /\ ret = (CASE call.arg \in 1..5 -> "poor"
                    [] call.arg \in 6..10 -> "average"
                    [] call.arg \in 11..15 -> "good"
                    [] call.arg \in 16..20 -> "excellent"
                    [] OTHER -> "poor")

\* the fallback: total 0 rated poor
C3_Witness == Returned("_get_niche_rating") /\ call.arg = 0 /\ ret = "poor"

\* the score the two segments of a products table should give
ExpectedAdsScore(df) ==
    Min2(_get_ratio_score(PriceToCpmRatio(TopSegment(df, 10))),
         _get_ratio_score(PriceToCpmRatio(TopSegment(df, 100))))

\* C4: for a products table with a product at category position <= 10 (and the
\* price and CPM columns), the score _calculate_ads_score returns is
\* min(score(top10_ratio), score(top100_ratio)).
C4_AdsScoreIsMinOfSegments ==
    ( /\ Returned("_calculate_ads_score")
      /\ {"category_position", "search_cpm", "final_price"} \subseteq call.arg.cols
      /\ Len(TopSegment(call.arg, 10).rows) > 0 )
    => ret.score = ExpectedAdsScore(call.arg)

\* the changes k, in half percents, with which a yearly frame was built
YoyProbe(df) == df.rows[2]["metric"] - 200

\* C5: each thresholded score is monotonically non-decreasing in its input:
\* a larger ratio never gets a smaller _get_ratio_score, a larger average YoY
\* change never a smaller YoY score, and a larger share of effective queries
\* never a smaller query score.
C5_ThresholdScoresMonotone ==
    /\ Returned("_get_ratio_score") =>
          \A k \in 0..MaxProbe :
              RatLeq(call.arg, Rat(k, 2)) => ret <= _get_ratio_score(Rat(k, 2))
    /\ Returned("_calculate_yoy_score") =>
          \A k \in (-MaxProbe)..MaxProbe :
              YoyProbe(call.arg) <= k =>
                  ret.score <= _calculate_yoy_score(YearlyFrame(k), "metric").score
    /\ (Returned("_calculate_query_score") /\ Len(call.arg.rows) = MaxQueries) =>
          \A k \in 0..MaxQueries :
              Len(EffectiveQueries(call.arg).rows) <= k =>
                  ret.score <= _calculate_query_score(QueriesFrame(k, MaxQueries)).score

\* a ratio in a middle bucket, with larger and smaller ratios probed
C5_Witness == Returned("_get_ratio_score") /\ ret = 2

\* C6: a report classified invalid at upload is not fed to the scoring engine:
\* once a scoring run has stored its results, the module of every invalid
\* report has score 0.
C6_InvalidReportNotScored ==
    ~Empty(scoring_results) =>
        \A t \in DOMAIN validation_results :
            ~validation_results[t].valid => scoring_results[ScoreKey(t)] = 0

\* the table lacks a column the scorer of its type requires
LacksRequired(data_type, df) ==
    CASE data_type = "trends" -> "date" \notin df.cols
      [] data_type = "queries" -> "coefficient" \notin df.cols
      [] data_type = "price" -> "revenue_per_product" \notin df.cols
      [] data_type = "days" -> ~({"stock", "date"} \subseteq df.cols)
      [] OTHER -> ~({"category_position", "search_cpm", "final_price"} \subseteq df.cols)

\* C7: when a present table lacks a column its scorer requires, the call
\* returns, that module's score is 0 and its detailed_analysis entry carries an
\* 'error' marker; the same for the scorer called on such a table.
C7_MissingColumnScoresZeroWithError ==
    /\ Returned("calculate_total_score") =>
          \A t \in DOMAIN call.arg :
              LacksRequired(t, call.arg[t]) =>
                  /\ ret[ScoreKey(t)] = 0
                  /\ AnalysisKey(t) \in DOMAIN ret.detailed_analysis
                  /\ ret.detailed_analysis[AnalysisKey(t)].error # NoError
    /\ \A t \in DataTypes :
          (Returned(ScorerOf(t)) /\ LacksRequired(t, call.arg)) =>
              ret.score = 0 /\ ret.analysis.error # NoError

\* a days table without the stock column, scored next to a module that scored
C7_Witness ==
    /\ Returned("calculate_total_score")
    /\ "days" \in DOMAIN call.arg
    /\ LacksRequired("days", call.arg["days"])
    /\ ret.stock_score = 0
    /\ ret.total_score > 0

\* C8: a module whose table is absent keeps score 0, has no entry in
\* detailed_analysis and adds 0 to total_score; detailed_analysis has an entry
\* for exactly the modules whose table is present.
C8_AbsentModulesContributeNothing ==
    Returned("calculate_total_score") =>
        /\ \A t \in DataTypes \ DOMAIN call.arg :
              /\ ret[ScoreKey(t)] = 0
              /\ AnalysisKey(t) \notin DOMAIN ret.detailed_analysis
        /\ DOMAIN ret.detailed_analysis = {AnalysisKey(t) : t \in DOMAIN call.arg}
        /\ ret.total_score =
              SumSeq([i \in 1..Len(TypeOrder) |->
                        IF TypeOrder[i] \in DOMAIN call.arg THEN ret[ScoreKey(TypeOrder[i])] ELSE 0])

\* two tables present, three absent, and a positive total
C8_Witness ==
    /\ Returned("calculate_total_score")
    /\ DOMAIN call.arg = {"queries", "days"}
    /\ ret.query_score > 0 /\ ret.stock_score > 0

\* some row has more products with sales than products
HasInconsistentRow(df) ==
    /\ {"products", "products_with_sales"} \subseteq df.cols
    /\ \E i \in 1..Len(df.rows) : df.rows[i]["products_with_sales"] > df.rows[i]["products"]

\* a trends or price report with such a row was validated
ValidatedInconsistent ==
    /\ Returned("_validate_by_type")
    /\ call.arg.data_type \in {"trends", "price"}
    /\ HasInconsistentRow(call.arg.df)

\* C9 as stated: for the trends and the price report, a row with more products
\* with sales than products is recorded in the errors list, not in the warnings
\* list, and the report is invalid.
C9_InconsistencyIsError ==
    ValidatedInconsistent =>
        /\ "inconsistent_products" \in Range(ret.errors)
        /\ "inconsistent_products" \notin Range(ret.warnings)
        /\ ~ret.valid

\* C9, amended: such a report is always invalid and the inconsistency is never
\* a warning; it is recorded in the errors list for the trends report, and for
\* the price report when the columns 'От', 'До' and 'Выручка на товар, ₽' are
\* all present (without one of them only the missing columns are recorded).
C9_InconsistencyIsErrorWhenChecked ==
    ValidatedInconsistent =>
        /\ ~ret.valid
        /\ "inconsistent_products" \notin Range(ret.warnings)
        /\ ( \/ call.arg.data_type = "trends"
             \/ {"price_from", "price_to", "revenue_per_product"} \subseteq call.arg.df.cols )
           => "inconsistent_products" \in Range(ret.errors)

\* a price report with its required columns and an inconsistent row
C9_Witness ==
    /\ ValidatedInconsistent
    /\ call.arg.data_type = "price"
    /\ "inconsistent_products" \in Range(ret.errors)

\* C10: validation leaves every table it is given as it was, columns and rows:
\* validate_all_data for every dict of tables, and the validator of each report
\* type for every table.
C10_ValidationLeavesTables ==
    /\ Returned("validate_all_data") => arg_after = call.arg
    /\ Returned("_validate_by_type") => arg_after = call.arg

\* a days table whose rows are not in date order, validated with others
C10_Witness ==
    /\ Returned("validate_all_data")
    /\ "days" \in DOMAIN call.arg /\ "price" \in DOMAIN call.arg
    /\ {"date", "stock"} \subseteq call.arg["days"].cols
    /\ Len(call.arg["days"].rows) = 2
    /\ call.arg["days"].rows[1]["date"] > call.arg["days"].rows[2]["date"]
    /\ ret["days"].valid

\* the dict without the table of one report type
Without(data, data_type) == [t \in DOMAIN data \ {data_type} |-> data[t]]

\* the tables on which the scorer of a report type raises an exception
Raises(data_type, df) ==
    CASE data_type = "trends" -> "date" \notin df.cols
      [] data_type = "queries" ->
            /\ "coefficient" \in df.cols
            /\ \/ ~({"keyword", "frequency", "products_in_query"} \subseteq df.cols)
               \/ Len(df.rows) = 0
      [] data_type = "price" ->
            /\ "revenue_per_product" \in df.cols
            /\ Len(df.rows) = 0 \/ ~({"price_from", "price_to"} \subseteq df.cols)
      [] data_type = "days" -> FALSE
      [] OTHER ->
            \/ "category_position" \notin df.cols
            \/ Len(TopSegment(df, 10).rows) > 0

\* the modules others have in results the score and the entry they have in ret
SameModules(results, others) ==
    \A u \in others :
        /\ AnalysisKey(u) \in DOMAIN ret.detailed_analysis
        /\ ret[ScoreKey(u)] = results[ScoreKey(u)]
        /\ ret.detailed_analysis[AnalysisKey(u)] = results.detailed_analysis[AnalysisKey(u)]

SameScoring(results) ==
    /\ \A k \in ScoreKeys : results[k] = ret[k]
    /\ results.total_score = ret.total_score
    /\ results.niche_rating = ret.niche_rating
    /\ results.recommendations = ret.recommendations

\* C12: scoring is reproducible: calculate_total_score run again on the tables
\* as the first run left them, and run on the tables as they were passed,
\* returns the module scores, the total, the rating and the recommendation
\* list, in order, that the first run returned.
C12_ScoringIsDeterministic ==
    Returned("calculate_total_score") =>
        /\ SameScoring(calculate_total_score(arg_after).results)
        /\ SameScoring(calculate_total_score(call.arg).results)

\* a first run that added columns to a trends table, with three recommendations
C12_Witness ==
    /\ Returned("calculate_total_score")
    /\ "trends" \in DOMAIN call.arg
    /\ arg_after["trends"].cols # call.arg["trends"].cols
    /\ ret.trend_score > 0
    /\ Len(ret.recommendations) >= 3

\* C13: nothing a session stores or observes comes from another session: the
\* file info of this session never names a file that another session uploaded.
C13_SessionStateIsItsOwn ==
    \A t \in DOMAIN FileInfo : FileInfo[t].filename # OtherSessionFile

\* C14: scoring leaves loaded_data as it was: a step that calculates the
\* scoring, from the dashboard or from the scoring page, changes no table of
\* loaded_data, whether the tables were uploaded or are the sample data.
C14_ScoringLeavesLoadedData ==
    [][(DashboardCalculateScoring \/ ScoringPageCalculateScoring)
        => loaded_data' = loaded_data]_vars

\* the columns the validator of a report type requires
RequiredColumns(data_type) ==
    CASE data_type = "trends" -> TrendsRequired
      [] data_type = "queries" -> {"keyword", "frequency", "products_in_query"}
      [] data_type = "price" -> {"price_from", "price_to", "revenue_per_product"}
      [] data_type = "days" -> {"date", "stock"}
      [] OTHER -> {"sku", "final_price", "category_position"}

\* C15: for each of the five report types, a table that lacks a column its
\* validator requires is classified invalid and has at least one error, the
\* one recording the missing columns; it is never only warned about.
C15_MissingRequiredColumnIsError ==
    /\ ( /\ Returned("_validate_by_type")
         /\ ~(RequiredColumns(call.arg.data_type) \subseteq call.arg.df.cols) )
       => /\ ~ret.valid
          /\ Len(ret.errors) >= 1
          /\ "missing_columns" \in Range(ret.errors)
          /\ "missing_columns" \notin Range(ret.warnings)
    /\ Returned("validate_all_data") =>
          \A t \in DOMAIN call.arg :
              ~(RequiredColumns(t) \subseteq call.arg[t].cols) =>
                  ~ret[t].valid /\ Len(ret[t].errors) >= 1

\* a products table lacking only 'SKU', with no other fault
C15_Witness ==
    /\ Returned("_validate_by_type")
    /\ call.arg.data_type = "products"
    /\ call.arg.df.cols = ProductsCols \ {"sku"}
    /\ ret.errors = <<"missing_columns">>
    /\ ~ret.valid

\* the session store of a new session: the three dicts initialize_session_state
\* creates are empty, file_info and validation_results are absent
SessionStoreInitial ==
    /\ Empty(loaded_data)
    /\ Empty(scoring_results)
    /\ analysis_results = {}
    /\ Empty(validation_results)
    /\ file_info.ref = "none"

\* C16: either clear action, the sidebar's 'clear data' or the uploader's
\* 'reload files', taken in any reachable state, leaves the session store as
\* that of a new session: loaded_data, file_info, validation_results,
\* analysis_results and scoring_results are gone, no earlier score remains, and
\* with loaded_data empty the dashboard shows the upload interface.
C16_ClearResetsSession ==
    [][(ClearAllData \/ ReloadFiles) => SessionStoreInitial']_vars

\* the store is empty again after this session had uploaded a file
C16_Witness ==
    /\ SessionStoreInitial
    /\ \E t \in DOMAIN processor_file_info : processor_file_info[t].filename = SessionFile

\* a scorer's result (score, analysis) has score 0 without an 'error' marker
ZeroUnmarked(score, analysis) == score = 0 /\ analysis.error = NoError

\* the table has none of the five metric columns of the trend scorer
NoTrendMetric(df) == \A m \in DOMAIN TrendMetrics : TrendMetrics[m].col \notin df.cols

ValidatedNegative(data_type, col) ==
    /\ Returned("_validate_by_type")
    /\ call.arg.data_type = data_type
    /\ col \in call.arg.df.cols
    /\ Negatives(call.arg.df, col) > 0

\* C18 as stated: a products table with a negative 'Final price' and a daily
\* table with a negative stock value are each invalid, the negative values
\* being recorded as errors.
C18_NegativesAreErrors ==
    /\ ValidatedNegative("products", "final_price") =>
          ~ret.valid /\ "negative_price" \in Range(ret.errors)
    /\ ValidatedNegative("days", "stock") =>
          ~ret.valid /\ "negative_stock" \in Range(ret.errors)

\* C18, amended: a products table with a negative 'Final price' is invalid and
\* the negative price is an error; a daily table with a negative stock value
\* gets a warning for it and no error, and is valid exactly when it has both
\* required columns.
C18_NegativePriceIsErrorStockIsWarning ==
    /\ ValidatedNegative("products", "final_price") =>
          ~ret.valid /\ "negative_price" \in Range(ret.errors)
    /\ ValidatedNegative("days", "stock") =>
          /\ "negative_stock" \in Range(ret.warnings)
          /\ "negative_stock" \notin Range(ret.errors)
          /\ ret.valid <=> {"date", "stock"} \subseteq call.arg.df.cols

\* a daily table with both columns and a negative stock was found valid
C18_Witness ==
    /\ ValidatedNegative("days", "stock")
    /\ "date" \in call.arg.df.cols
    /\ ret.valid
    /\ ret.warnings = <<"negative_stock">>

\* a products table with a negative price was validated
C18_WitnessPrice == ValidatedNegative("products", "final_price") /\ ~ret.valid

\* the years of a table that carries the column 'Год'
YearsOf(df) == {df.rows[i]["year"] : i \in 1..Len(df.rows)}

\* the year-over-year changes in percent of the yearly means of a column, over
\* the pairs of consecutive years whose earlier mean is positive
YoyChangesOf(df, col) ==
    LET yearly == YearlyData(df, col)
        idx == SelectIdx([i \in 1..(Len(yearly) - 1) |-> yearly[i].n > 0], 1, Len(yearly) - 1)
    IN  [k \in 1..Len(idx) |-> ChangePercent(yearly[idx[k]], yearly[idx[k] + 1])]

\* the score the claim gives to a metric column
MetricScoreOf(df, col) ==
    IF Cardinality(YearsOf(df)) < 2 \/ YoyChangesOf(df, col) = <<>> THEN 2
    ELSE LET avg == RatMean(YoyChangesOf(df, col))
         IN  IF avg.n >= 10 * avg.d THEN 4
             ELSE IF avg.n >= 0 THEN 3
             ELSE IF avg.n >= -5 * avg.d THEN 2
             ELSE 1

\* the trend scorer returned for a table that has its date column
TrendScored == Returned("_calculate_trend_score") /\ "date" \in call.arg.cols

C19_WitnessLadder ==
    /\ TrendScored
    /\ Cardinality(YearsOf(arg_after)) = 2
    /\ {1, 2} \subseteq {ret.analysis.score_breakdown[k].score :
                           k \in DOMAIN ret.analysis.score_breakdown}

C19_WitnessOneYear ==
    TrendScored /\ Cardinality(YearsOf(arg_after)) = 1 /\ ret.score = 2

C19_WitnessNoMetric ==
    TrendScored /\ Len(arg_after.rows) > 0 /\ ret.analysis.score_breakdown = <<>> /\ ret.score = 0

\* the ads scorer returned for a products table with a product in the top
\* `limit` whose segment has no positive average CPM
ScoredWithoutCpm(limit) ==
    /\ Returned("_calculate_ads_score")
    /\ {"category_position", "search_cpm", "final_price"} \subseteq call.arg.cols
    /\ Len(TopSegment(call.arg, 10).rows) > 0
    /\ ColSum(TopSegment(call.arg, limit), "search_cpm") <= 0

C20_WitnessNoCpm ==
    /\ ScoredWithoutCpm(10)
    /\ ColSum(TopSegment(call.arg, 10), "final_price") > 0
    /\ ret.score = 0

\* the number of rows of a queries table with coefficient >= 2.0
EffectiveCount(df) ==
    Cardinality({i \in 1..Len(df.rows) : df.rows[i]["coefficient"] >= 200})

C21_WitnessEmpty ==
    /\ Returned("_calculate_query_score")
    /\ "coefficient" \in call.arg.cols
    /\ Len(call.arg.rows) = 0
    /\ ret.analysis.error = "UnboundLocalError"

\* the days of a daily table without stock
ZeroDays(df) == Cardinality({i \in 1..Len(df.rows) : df.rows[i]["stock"] = 0})

StockTotal(df) == SumSeq([i \in 1..Len(df.rows) |-> df.rows[i]["stock"]])

\* the coefficient of variation is a number: the mean stock is not positive
\* (then it is 0), or there are two rows or more (the deviation of one row is NaN)
CvKnown(df) == StockTotal(df) <= 0 \/ Len(df.rows) >= 2

\* the square of the coefficient of variation, sample deviation over mean
CvSquared(df) ==
    LET n == Len(df.rows)
        s == StockTotal(df)
        q == SumSeq([i \in 1..n |-> df.rows[i]["stock"] * df.rows[i]["stock"]])
    IN  IF s <= 0 THEN Rat(0, 1) ELSE Rat(n * (n * q - s * s), (n - 1) * s * s)

\* cv < tenths / 10 and zero-stock share < percent; a comparison with a value
\* that is not a number is false
StockStep(df, tenths, percent) ==
    /\ CvKnown(df)
    /\ 100 * CvSquared(df).n < tenths * tenths * CvSquared(df).d
    /\ Len(df.rows) > 0
    /\ 100 * ZeroDays(df) < percent * Len(df.rows)

StockLadder(df) ==
    IF StockStep(df, 3, 10) THEN 4
    ELSE IF StockStep(df, 5, 20) THEN 3
    ELSE IF StockStep(df, 7, 30) THEN 2
    ELSE 1

\* the stock scorer returned for a table with the stock and date columns
StockScored ==
    Returned("_calculate_stock_score") /\ {"date", "stock"} \subseteq call.arg.cols

\* C22: for a days table with stock and date columns the stock score is 4 iff
\* cv < 0.3 and zero-stock share < 10%, else 3 iff cv < 0.5 and share < 20%,
\* else 2 iff cv < 0.7 and share < 30%, else 1; a table with cv and share at
\* least as large never scores more; with a mean stock that is not positive
\* the cv counts as 0 and the share alone decides.
C22_StockScoreLadder ==
    StockScored =>
        /\ ret.score = StockLadder(call.arg)
        /\ ret.analysis.error = NoError
        /\ (CvKnown(call.arg) /\ Len(call.arg.rows) > 0) =>
              \A k \in 0..MaxDays, v \in StockLevels :
                  ( /\ RatLeq(CvSquared(call.arg), CvSquared(StockFrame(k, v)))
                    /\ ZeroDays(call.arg) * MaxDays <= k * Len(call.arg.rows) )
                  => _calculate_stock_score(StockFrame(k, v)).score <= ret.score
        /\ (StockTotal(call.arg) <= 0 /\ Len(call.arg.rows) > 0) =>
              ret.score = (IF 100 * ZeroDays(call.arg) < 10 * Len(call.arg.rows) THEN 4
                           ELSE IF 100 * ZeroDays(call.arg) < 20 * Len(call.arg.rows) THEN 3
                           ELSE IF 100 * ZeroDays(call.arg) < 30 * Len(call.arg.rows) THEN 2
                           ELSE 1)

\* two days of ten without stock: share 20%, cv about 0.53, score 2
C22_Witness == StockScored /\ call.arg = StockFrame(2, 1) /\ ret.score = 2

\* no zero day and a cv of about 0.35, 0.53 and 0.75: scores 3, 2 and 1
C22_WitnessCv ==
    StockScored /\ call.arg = StockFrame(0, 3) /\ ret.score = 2

\* negative stock only: the mean is not positive, cv 0, score 4
C22_WitnessNoMean ==
    StockScored /\ Len(call.arg.rows) = 2 /\ StockTotal(call.arg) < 0
                /\ ZeroDays(call.arg) = 0 /\ ret.score = 4

\* the number of segments of a price table with revenue per product strictly
\* above the median and, when the table has the sellers column, sellers
\* strictly below their median
ProfitableSegments(df) ==
    IF Len(df.rows) = 0 THEN 0
    ELSE Cardinality({i \in 1..Len(df.rows) :
            /\ 2 * df.rows[i]["revenue_per_product"] > Median2(df, "revenue_per_product")
            /\ "sellers" \in df.cols => 2 * df.rows[i]["sellers"] < Median2(df, "sellers")})

\* n >= 3 gives 4, n = 2 gives 3, n = 1 gives 2, n = 0 gives 1
SegmentsLadder(n) == CASE n >= 3 -> 4 [] n = 2 -> 3 [] n = 1 -> 2 [] OTHER -> 1

\* the price scorer returned for a table with the revenue-per-product column
PriceScored ==
    Returned("_calculate_price_score") /\ "revenue_per_product" \in call.arg.cols

C23_WitnessTwo ==
    PriceScored /\ call.arg = SegmentsFrame(2, PriceCols) /\ ret.score = 3

C23_WitnessNoSellers ==
    PriceScored /\ call.arg = SegmentsFrame(1, PriceCols \ {"sellers"}) /\ ret.score = 2

\* a single segment scores 1; an empty table scores 0
C23_WitnessSingle ==
    PriceScored /\ Len(call.arg.rows) = 1 /\ "price_from" \in call.arg.cols /\ ret.score = 1

C23_WitnessEmpty ==
    PriceScored /\ Len(call.arg.rows) = 0 /\ ret.score = 0

\* a price report with both range columns was validated
ValidatedRanges ==
    /\ Returned("_validate_by_type")
    /\ call.arg.data_type = "price"
    /\ {"price_from", "price_to"} \subseteq call.arg.df.cols

\* a row with lower bound >= upper bound
HasInvalidRange(df) ==
    \E i \in 1..Len(df.rows) : df.rows[i]["price_from"] >= df.rows[i]["price_to"]

\* sorted by lower bound, a segment ends above the start of the next
HasOverlap(df) == Len(df.rows) > 1 /\ Overlaps(df) > 0

\* C24 as stated: a row with lower bound >= upper bound produces an error and
\* makes the price report invalid; overlapping ranges of consecutive segments
\* produce a warning and no error.
C24_RangesErrorOverlapsWarning ==
    ValidatedRanges =>
        /\ HasInvalidRange(call.arg.df) =>
              "invalid_ranges" \in Range(ret.errors) /\ ~ret.valid
        /\ HasOverlap(call.arg.df) =>
              /\ "overlapping_ranges" \in Range(ret.warnings)
              /\ "overlapping_ranges" \notin Range(ret.errors)

\* C24, amended: that holds for a price report that also has the column
\* 'Выручка на товар, ₽', whose validity does not depend on overlaps; without
\* that column neither check is made, the only message is the missing-columns
\* error and the report is invalid.
C24_RangesCheckedWithAllColumns ==
    ValidatedRanges =>
        IF "revenue_per_product" \in call.arg.df.cols
        THEN /\ HasInvalidRange(call.arg.df) <=> "invalid_ranges" \in Range(ret.errors)
             /\ HasInvalidRange(call.arg.df) => ~ret.valid
             /\ HasOverlap(call.arg.df) <=> "overlapping_ranges" \in Range(ret.warnings)
             /\ "overlapping_ranges" \notin Range(ret.errors)
             /\ ret.valid <=>
                   ~ \/ HasInvalidRange(call.arg.df)
                     \/ Negatives(call.arg.df, "revenue_per_product") > 0
                     \/ ConsistencyErrors(call.arg.df) # <<>>
        ELSE ret.errors = <<"missing_columns">> /\ ret.warnings = <<>> /\ ~ret.valid

\* two overlapping segments with proper ranges: a warning, and the report valid
C24_Witness ==
    /\ ValidatedRanges
    /\ "revenue_per_product" \in call.arg.df.cols
    /\ HasOverlap(call.arg.df)
    /\ ~HasInvalidRange(call.arg.df)
    /\ "overlapping_ranges" \in Range(ret.warnings)
    /\ ret.valid

\* a segment from 100 to 100: an error, and the report invalid
C24_WitnessInvalidRange ==
    /\ ValidatedRanges
    /\ "revenue_per_product" \in call.arg.df.cols
    /\ HasInvalidRange(call.arg.df)
    /\ ret.errors = <<"invalid_ranges">>

\* C25: in every validation result of every report type valid is true iff the
\* errors list is empty, whatever the warnings; in get_validation_summary
\* overall_valid holds iff total_errors = 0 iff valid_files = total_files iff
\* files_with_errors is empty.
C25_ValidIffNoErrors ==
    /\ Returned("_validate_by_type") => (ret.valid <=> ret.errors = <<>>)
    /\ Returned("validate_all_data") =>
          \A t \in DOMAIN ret : ret[t].valid <=> ret[t].errors = <<>>
    /\ Returned("get_validation_summary") =>
          /\ ret.overall_valid <=> ret.total_errors = 0
          /\ ret.total_errors = 0 <=> ret.valid_files = ret.total_files
          /\ ret.valid_files = ret.total_files <=> ret.files_with_errors = {}

\* a summary over a valid report with warnings and a report with errors
C25_Witness ==
    /\ Returned("get_validation_summary")
    /\ ret.valid_files >= 1
    /\ ret.files_with_errors # {}
    /\ ~ret.overall_valid
    /\ \E t \in DOMAIN call.arg : call.arg[t].valid /\ call.arg[t].warnings # <<>>

\* a summary over reports with warnings and without errors
C25_WitnessValid ==
    /\ Returned("get_validation_summary")
    /\ ret.total_files >= 2
    /\ ret.total_warnings > 0
    /\ ret.overall_valid

\* a report of each type found valid with a warning
C25_WitnessWarned ==
    /\ Returned("_validate_by_type")
    /\ call.arg.data_type = "days"
    /\ ret.valid /\ ret.warnings # <<>>

\* the overall recommendation and the rating name the same of the four classes
OverallAgrees(overall, rating) ==
    /\ overall = "overall_excellent" <=> rating = "excellent"
    /\ overall = "overall_good" <=> rating = "good"
    /\ overall = "overall_average" <=> rating = "average"
    /\ overall = "overall_poor" <=> rating = "poor"

\* C26: for every combination of module scores the first recommendation is
\* the excellent, good, average or high-risk text iff niche_rating is
\* excellent, good, average or poor; the recommendation of the executive
\* summary changes at the same totals.
C26_OverallAgreesWithRating ==
    /\ Returned("_generate_recommendations") => OverallAgrees(ret[1], call.arg.niche_rating)
    /\ Returned("calculate_total_score") => OverallAgrees(ret.recommendations[1], ret.niche_rating)
    /\ Returned("generate_executive_summary") =>
          /\ ret.recommendation = "enter" <=> call.arg.niche_rating = "excellent"
          /\ ret.recommendation = "enter_with_caution" <=> call.arg.niche_rating = "good"
          /\ ret.recommendation = "detailed_analysis" <=> call.arg.niche_rating = "average"
          /\ ret.recommendation = "do_not_enter" <=> call.arg.niche_rating = "poor"
          /\ ret.recommendation = "enter" <=> call.arg.recommendations[1] = "overall_excellent"
          /\ ret.recommendation = "do_not_enter" <=> call.arg.recommendations[1] = "overall_poor"

\* a total of exactly 16 with every module scoring: the excellent text
C26_Witness ==
    /\ Returned("_generate_recommendations")
    /\ call.arg.total_score = 16
    /\ call.arg.ads_score = 4
    /\ call.arg.niche_rating = "excellent"
    /\ ret[1] = "overall_excellent"

\* a total of 0, below every range: rated poor, the high-risk text, do not enter
C26_WitnessZero ==
    /\ Returned("generate_executive_summary")
    /\ call.arg.total_score = 0
    /\ call.arg.recommendations[1] = "overall_poor"
    /\ ret.recommendation = "do_not_enter"

\* the number of entries of a list of recommendations that are of a kind
CountOf(recommendations, kind) ==
    Cardinality({i \in DOMAIN recommendations : recommendations[i] \in kind})

\* one overall, one query and one ads recommendation, and the trend
\* recommendation iff trend_score <= 2, and nothing else
WellFormedRecommendations(recommendations, trend_score) ==
    /\ CountOf(recommendations,
               {"overall_excellent", "overall_good", "overall_average", "overall_poor"}) = 1
    /\ CountOf(recommendations, {"query_many", "query_few"}) = 1
    /\ CountOf(recommendations, {"ads_overheated", "ads_moderate"}) = 1
    /\ CountOf(recommendations, {"trend_decline"}) = (IF trend_score <= 2 THEN 1 ELSE 0)
    /\ Len(recommendations) = 3 + (IF trend_score <= 2 THEN 1 ELSE 0)

\* C27: calculate_total_score on an empty loaded_data returns total_score 0,
\* niche_rating poor, an empty detailed_analysis and the four recommendations
\* high-risk niche, declining trends, few effective queries, overheated
\* advertising; every result has exactly one overall, one query and one ads
\* recommendation, and the trend recommendation iff trend_score <= 2, also
\* for modules without a table.
C27_EmptyDataRecommendations ==
    /\ Returned("calculate_total_score") =>
          /\ WellFormedRecommendations(ret.recommendations, ret.trend_score)
          /\ call.arg = <<>> =>
                /\ ret.total_score = 0
                /\ ret.niche_rating = "poor"
                /\ DOMAIN ret.detailed_analysis = {}
                /\ ret.recommendations =
                      <<"overall_poor", "trend_decline", "query_few", "ads_overheated">>
    /\ Returned("_generate_recommendations") =>
          WellFormedRecommendations(ret, call.arg.trend_score)

\* the empty loaded_data was scored
C27_Witness ==
    /\ Returned("calculate_total_score")
    /\ call.arg = <<>>
    /\ Len(ret.recommendations) = 4

\* a table of one type only: the modules without a table are still commented
C27_WitnessAbsent ==
    /\ Returned("calculate_total_score")
    /\ DOMAIN call.arg = {"days"}
    /\ ret.stock_score > 0
    /\ "query_few" \in Range(ret.recommendations)

\* three recommendations: a trend score above 2
C27_WitnessThree ==
    /\ Returned("calculate_total_score")
    /\ ret.trend_score > 2
    /\ Len(ret.recommendations) = 3

\* the stored score is the score of the stored tables
ScoringIsFresh ==
    ~Empty(scoring_results) =>
        /\ ~Empty(loaded_data)
        /\ scoring_results = calculate_total_score(loaded_data).results

\* a step gives an empty session its tables, leaves the tables to the scoring
\* that runs on them, or empties loaded_data and both results with it
LoadedDataWrittenWhenEmpty ==
    /\ (~Empty(loaded_data) /\ ~Empty(loaded_data')) =>
          \/ loaded_data' = loaded_data
          \/ loaded_data' = calculate_total_score(loaded_data).data
    /\ (~Empty(loaded_data) /\ Empty(loaded_data')) =>
          Empty(scoring_results') /\ analysis_results' = {}

\* C28: stored scoring results are never stale: in every reachable session
\* state a non-empty scoring_results goes with a non-empty loaded_data whose
\* score it is; new tables are stored only while loaded_data is empty, and
\* every step that empties loaded_data removes scoring_results and
\* analysis_results.
C28_ScoringResultsNeverStale ==
    []ScoringIsFresh /\ [][LoadedDataWrittenWhenEmpty]_vars

\* an upload was scored: the trends table carries the columns of the scorer
C28_Witness ==
    /\ ~Empty(scoring_results)
    /\ "queries" \in DOMAIN loaded_data
    /\ "trends" \in DOMAIN loaded_data
    /\ "year" \in loaded_data["trends"].cols
    /\ file_info.ref = "processor"
    /\ scoring_results.total_score > 0

====
